---- MODULE Spec2Model ----
(***************************************************************************)
(* Form submission pipeline: client submission flow (useFormState), the    *)
(* two HTTP handlers (service-based and rate-limited), the Sheets append   *)
(* client with its classified retry loop, the error handler and the        *)
(* structured logger.                                                      *)
(*                                                                         *)
(* Strings are sequences of one-character strings, so that trim,           *)
(* substring, toLowerCase, includes and the regular expressions are        *)
(* computed as the code computes them.  A JavaScript value is a record     *)
(* tagged with its typeof-like kind in field t.                            *)
(***************************************************************************)
EXTENDS Integers, Sequences, FiniteSets, TLC

VARIABLES
  log,        \* console output of the structured logger (server side)
  logLevel,   \* Logger.logLevel
  idCounter,  \* number of submission ids generated so far
  app,        \* appendFormData activation (GoogleSheetsServiceImpl)
  sheet,      \* rows of the remote spreadsheet
  now,        \* clock, in milliseconds
  req,        \* the service-based handler's activation for one request
  env,              \* process.env of the rate-limited function
  submissionTracker, \* the rate limiter's map from client address to its entry
  rlReq,            \* the rate-limited handler's activations, one per request
  decisions,        \* history: per client address, what checkRateLimit decided and when
  state,        \* useFormState's FormState
  localStorage, \* the browser's entry under STORAGE_KEY
  sub,          \* submitForm activations and the POSTs they issued
  clientLog,    \* the browser console
  showThankYou, \* DynamicForm's showThankYou
  call          \* a library function called on its own: its argument and its result

serviceVars == <<log, logLevel, idCounter, app, req>>
rateLimitedVars == <<env, submissionTracker, rlReq, decisions>>
clientVars == <<state, localStorage, sub, clientLog, showThankYou>>

libVars == <<call>>

vars == <<serviceVars, sheet, now, rateLimitedVars, clientVars, libVars>>

-----------------------------------------------------------------------------
(* Strings *)

Whitespace == {" ", "\t", "\n"}

UpperToLower ==
  [A |-> "a", B |-> "b", C |-> "c", D |-> "d", E |-> "e", F |-> "f", G |-> "g",
   H |-> "h", I |-> "i", J |-> "j", K |-> "k", L |-> "l", M |-> "m", N |-> "n",
   O |-> "o", P |-> "p", Q |-> "q", R |-> "r", S |-> "s", T |-> "t", U |-> "u",
   V |-> "v", W |-> "w", X |-> "x", Y |-> "y", Z |-> "z"]

ToLowerCase(s) ==
  [i \in 1..Len(s) |-> IF s[i] \in DOMAIN UpperToLower THEN UpperToLower[s[i]] ELSE s[i]]

Includes(s, k) ==
  \E i \in 0..(Len(s) - Len(k)) : SubSeq(s, i + 1, i + Len(k)) = k

IncludesAny(s, ks) == \E k \in ks : Includes(s, k)

Trim(s) ==
  LET keep == {i \in 1..Len(s) : s[i] \notin Whitespace}
  IN  IF keep = {} THEN <<>>
      ELSE LET lo == CHOOSE i \in keep : \A j \in keep : i <= j
               hi == CHOOSE i \in keep : \A j \in keep : j <= i
           IN  SubSeq(s, lo, hi)

\* String.prototype.substring(0, n)
Substring0(s, n) == IF Len(s) <= n THEN s ELSE SubSeq(s, 1, n)

Repeat(c, n) == [i \in 1..n |-> c]

DigitChar == <<"0", "1", "2", "3", "4", "5", "6", "7", "8", "9">>

Digits == {DigitChar[i] : i \in 1..10}

RECURSIVE NatToChars(_)
NatToChars(n) ==
  IF n < 10 THEN <<DigitChar[n + 1]>>
  ELSE NatToChars(n \div 10) \o <<DigitChar[(n % 10) + 1]>>

-----------------------------------------------------------------------------
(* JavaScript values *)

Undefined == [t |-> "undefined"]
Null == [t |-> "null"]
Str(s) == [t |-> "string", v |-> s]
Num(n) == [t |-> "number", v |-> n]
Arr(a) == [t |-> "array", v |-> a]

IsString(x) == x.t = "string"
IsArray(x) == x.t = "array"

\* a plain object is a record of its properties, without the tag t
IsObject(x) == "t" \notin DOMAIN x

\* !!x
Truthy(x) ==
  CASE IsObject(x) -> TRUE
    [] x.t = "undefined" -> FALSE
    [] x.t = "null" -> FALSE
    [] x.t = "string" -> Len(x.v) > 0
    [] x.t = "number" -> x.v # 0
    [] OTHER -> TRUE

PayloadFields ==
  {"timestamp", "name", "contactMethods", "email", "phone",
   "socialPlatforms", "socialMediaHandle", "address"}

\* Date: an instant is a natural number; the two renderings differ.
ToISOString(instant) == <<"i", "s", "o", "-">> \o NatToChars(instant)

InvalidDate == <<"I","n","v","a","l","i","d"," ","D","a","t","e">>

\* new Date(s).toLocaleString()
ToLocaleString(s) ==
  IF Len(s) > 4 /\ SubSeq(s, 1, 4) = <<"i", "s", "o", "-">>
     /\ \A i \in 5..Len(s) : s[i] \in Digits
  THEN <<"l", "o", "c", "a", "l", "e", "-">> \o SubSeq(s, 5, Len(s))
  ELSE InvalidDate

RECURSIVE Join(_, _)
\* Array.prototype.join(sep) of an array of strings
Join(a, sep) ==
  IF Len(a) = 0 THEN <<>>
  ELSE IF Len(a) = 1 THEN a[1].v
  ELSE a[1].v \o sep \o Join(Tail(a), sep)

\* x || ''
OrEmpty(x) == IF Truthy(x) THEN x.v ELSE <<>>

\* String(x)
ToText(x) ==
  CASE x.t = "undefined" -> <<"u","n","d","e","f","i","n","e","d">>
    [] x.t = "null" -> <<"n","u","l","l">>
    [] OTHER -> x.v

\* a conversion that renders the optional fields without a default
convertToSpreadsheetRowNoDefault(data) ==
  [timestamp |-> ToLocaleString(data.timestamp.v),
   name |-> data.name.v,
   contactMethods |-> Join(data.contactMethods.v, <<",", " ">>),
   email |-> ToText(data.email),
   phone |-> ToText(data.phone),
   socialPlatforms |-> Join(data.socialPlatforms.v, <<",", " ">>),
   socialMediaHandle |-> data.socialMediaHandle.v,
   address |-> ToText(data.address)]

convertToSpreadsheetRow(data) ==
  [timestamp |-> ToLocaleString(data.timestamp.v),
   name |-> data.name.v,
   contactMethods |-> Join(data.contactMethods.v, <<",", " ">>),
   email |-> OrEmpty(data.email),
   phone |-> OrEmpty(data.phone),
   socialPlatforms |-> Join(data.socialPlatforms.v, <<",", " ">>),
   socialMediaHandle |-> data.socialMediaHandle.v,
   address |-> OrEmpty(data.address)]

-----------------------------------------------------------------------------
(* Logger *)

NoId == 0

LevelRank == [debug |-> 0, info |-> 1, warn |-> 2, error |-> 3, critical |-> 4]

shouldLog(level) == LevelRank[level] >= LevelRank[logLevel]

NoError == [name |-> <<>>, message |-> <<>>]

createLogEntry(level, message, context, error, operation, submissionId) ==
  [level |-> level, message |-> message, context |-> context, error |-> error,
   operation |-> operation, submissionId |-> submissionId]

\* Logger.output applied to a batch of entries, in order
output(entries) == log \o SelectSeq(entries, LAMBDA e : shouldLog(e.level))

logSubmissionStart(submissionId, formData) ==
  createLogEntry("info", "Form submission started",
    [name |-> formData.name, contactMethods |-> formData.contactMethods,
     socialPlatforms |-> formData.socialPlatforms,
     hasEmail |-> Truthy(formData.email), hasPhone |-> Truthy(formData.phone)],
    NoError, "form_submission", submissionId)

logSubmissionSuccess(submissionId, formData) ==
  createLogEntry("info", "Form submission completed successfully",
    [name |-> formData.name, timestamp |-> formData.timestamp],
    NoError, "form_submission", submissionId)

\* formData.f of a value that may lack the property
Prop(formData, f) == IF f \in DOMAIN formData THEN formData[f] ELSE Undefined

\* a failure entry that keeps the summary fields and drops the payload
logSubmissionFailureSummary(submissionId, error, formData, attemptNumber, willRetry) ==
  createLogEntry("error", "Form submission failed",
    [name |-> Prop(formData, "name"),
     contactMethods |-> Prop(formData, "contactMethods"),
     socialPlatforms |-> Prop(formData, "socialPlatforms"),
     email |-> Prop(formData, "email"),
     phone |-> Prop(formData, "phone"),
     socialMediaHandle |-> Prop(formData, "socialMediaHandle"),
     timestamp |-> Prop(formData, "timestamp"),
     attemptNumber |-> attemptNumber,
     willRetry |-> willRetry],
    error, "form_submission", submissionId)

logSubmissionFailure(submissionId, error, formData, attemptNumber, willRetry) ==
  createLogEntry("error", "Form submission failed",
    [name |-> Prop(formData, "name"),
     contactMethods |-> Prop(formData, "contactMethods"),
     socialPlatforms |-> Prop(formData, "socialPlatforms"),
     email |-> Prop(formData, "email"),
     phone |-> Prop(formData, "phone"),
     socialMediaHandle |-> Prop(formData, "socialMediaHandle"),
     timestamp |-> Prop(formData, "timestamp"),
     attemptNumber |-> attemptNumber,
     willRetry |-> willRetry,
     fullFormData |-> formData],
    error, "form_submission", submissionId)

logSheetsOperation(submissionId, success, error, context) ==
  IF success
  THEN createLogEntry("info", "Google Sheets append successful", context,
                      NoError, "google_sheets", submissionId)
  ELSE createLogEntry("error", "Google Sheets append failed", context,
                      error, "google_sheets", submissionId)

logAuthenticationFailure(error, context) ==
  createLogEntry("error", "Google Sheets authentication failed", context,
                 error, "authentication", NoId)

logRetryAttempt(submissionId, attemptNumber, maxAttempts, error, nextRetryDelay) ==
  createLogEntry("warn", "Retry attempt ${attemptNumber}/${maxAttempts}",
    [attemptNumber |-> attemptNumber, maxAttempts |-> maxAttempts,
     nextRetryDelay |-> nextRetryDelay, errorMessage |-> error.message],
    NoError, "retry", submissionId)

logFallbackActivated(reason, submissionId, context) ==
  createLogEntry("warn", "Fallback mechanism activated",
    [reason |-> reason, operation |-> context.operation,
     errorMessage |-> context.errorMessage],
    NoError, "fallback", submissionId)

-----------------------------------------------------------------------------
(* ErrorHandler *)

ErrorHandlerMaxRetries == 3
baseRetryDelay == 1000
rateLimitBaseDelay == 5000

AuthenticationKeywords ==
  { <<"u","n","a","u","t","h","o","r","i","z","e","d">>,
    <<"i","n","v","a","l","i","d","_","g","r","a","n","t">>,
    <<"a","u","t","h","e","n","t","i","c","a","t","i","o","n">>,
    <<"i","n","v","a","l","i","d"," ","c","r","e","d","e","n","t","i","a","l","s">> }

NetworkKeywords ==
  { <<"n","e","t","w","o","r","k">>,
    <<"t","i","m","e","o","u","t">>,
    <<"c","o","n","n","e","c","t","i","o","n">>,
    <<"e","n","o","t","f","o","u","n","d">>,
    <<"e","c","o","n","n","r","e","s","e","t">> }

RateLimitKeywords ==
  { <<"r","a","t","e"," ","l","i","m","i","t">>,
    <<"q","u","o","t","a"," ","e","x","c","e","e","d","e","d">>,
    <<"t","o","o"," ","m","a","n","y"," ","r","e","q","u","e","s","t","s">>,
    <<"4","2","9">> }

ValidationKeywords ==
  { <<"v","a","l","i","d","a","t","i","o","n">>,
    <<"i","n","v","a","l","i","d"," ","d","a","t","a">>,
    <<"b","a","d"," ","r","e","q","u","e","s","t">>,
    <<"4","0","0">> }

PermissionKeywords ==
  { <<"p","e","r","m","i","s","s","i","o","n">>,
    <<"f","o","r","b","i","d","d","e","n">>,
    <<"a","c","c","e","s","s"," ","d","e","n","i","e","d">>,
    <<"4","0","3">> }

QuotaKeywords ==
  { <<"q","u","o","t","a">>,
    <<"l","i","m","i","t"," ","e","x","c","e","e","d","e","d">>,
    <<"u","s","a","g","e"," ","l","i","m","i","t">> }

\* a keyword table that leaves out the gateway timeout
ServerKeywordsWithout504 ==
  { <<"i","n","t","e","r","n","a","l"," ","s","e","r","v","e","r"," ","e","r","r","o","r">>,
    <<"s","e","r","v","i","c","e"," ","u","n","a","v","a","i","l","a","b","l","e">>,
    <<"5","0","0">>,
    <<"5","0","2">>,
    <<"5","0","3">> }

ServerKeywords ==
  { <<"i","n","t","e","r","n","a","l"," ","s","e","r","v","e","r"," ","e","r","r","o","r">>,
    <<"s","e","r","v","i","c","e"," ","u","n","a","v","a","i","l","a","b","l","e">>,
    <<"5","0","0">>,
    <<"5","0","2">>,
    <<"5","0","3">>,
    <<"5","0","4">> }

\* a classifier that looks for quota keywords before rate-limit keywords
classifyErrorQuotaFirst(error) ==
  LET message == ToLowerCase(error.message)
      name == ToLowerCase(error.name)
  IN  IF IncludesAny(message, AuthenticationKeywords) \/ Includes(name, <<"a","u","t","h">>)
        THEN "authentication"
      ELSE IF IncludesAny(message, NetworkKeywords)
              \/ Includes(name, <<"n","e","t","w","o","r","k">>)
        THEN "network"
      ELSE IF IncludesAny(message, QuotaKeywords) THEN "quota"
      ELSE IF IncludesAny(message, RateLimitKeywords) THEN "rate_limit"
      ELSE IF IncludesAny(message, ValidationKeywords) THEN "validation"
      ELSE IF IncludesAny(message, PermissionKeywords) THEN "permission"
      ELSE IF IncludesAny(message, ServerKeywords) THEN "server"
      ELSE "unknown"

classifyError(error) ==
  LET message == ToLowerCase(error.message)
      name == ToLowerCase(error.name)
  IN  IF IncludesAny(message, AuthenticationKeywords) \/ Includes(name, <<"a","u","t","h">>)
        THEN "authentication"
      ELSE IF IncludesAny(message, NetworkKeywords)
              \/ Includes(name, <<"n","e","t","w","o","r","k">>)
        THEN "network"
      ELSE IF IncludesAny(message, RateLimitKeywords) THEN "rate_limit"
      ELSE IF IncludesAny(message, ValidationKeywords) THEN "validation"
      ELSE IF IncludesAny(message, PermissionKeywords) THEN "permission"
      ELSE IF IncludesAny(message, QuotaKeywords) THEN "quota"
      ELSE IF IncludesAny(message, ServerKeywords) THEN "server"
      ELSE "unknown"

\* a policy that gives up on quota errors
isRetryableWithoutQuota(category) == category \in {"network", "rate_limit", "server"}

\* a policy that retries errors it cannot classify
isRetryableWithUnknown(category) ==
  category \in {"network", "rate_limit", "server", "quota", "unknown"}

isRetryable(category) == category \in {"network", "rate_limit", "server", "quota"}

RECURSIVE Pow2(_)
Pow2(n) == IF n <= 0 THEN 1 ELSE 2 * Pow2(n - 1)

\* a backoff that gives rate limiting no longer base
calculateRetryDelayOneBase(attemptNumber, category) ==
  baseRetryDelay * Pow2(attemptNumber - 1)

calculateRetryDelay(attemptNumber, category) ==
  LET baseDelay == IF category = "rate_limit" THEN rateLimitBaseDelay ELSE baseRetryDelay
  IN  baseDelay * Pow2(attemptNumber - 1)

\* context.attemptNumber || 1 (an absent attempt number is 0)
AttemptOr1(context) == IF context.attemptNumber = 0 THEN 1 ELSE context.attemptNumber

createErrorContext(submissionId, operation, formData, attemptNumber) ==
  [submissionId |-> submissionId, operation |-> operation,
   formData |-> formData, attemptNumber |-> attemptNumber]

handleErrorShouldRetry(error, context) ==
  isRetryable(classifyError(error)) /\ AttemptOr1(context) < ErrorHandlerMaxRetries

\* 0 stands for an undefined retryDelay
handleErrorRetryDelay(error, context) ==
  IF handleErrorShouldRetry(error, context)
  THEN calculateRetryDelay(AttemptOr1(context), classifyError(error))
  ELSE 0

\* the entries activateFallback logs
activateFallback(error, category, context) ==
  LET ids == [submissionId |-> context.submissionId, operation |-> context.operation]
      withData == [submissionId |-> context.submissionId, operation |-> context.operation,
                   formData |-> context.formData]
      fallback == logFallbackActivated(category, context.submissionId,
                    [operation |-> context.operation, errorMessage |-> error.message])
  IN  CASE category = "authentication" ->
             << logAuthenticationFailure(error, ids), fallback >>
        [] category = "permission" ->
             << createLogEntry("error", "Permission denied - manual intervention required",
                               ids, error, context.operation, context.submissionId),
                fallback >>
        [] category = "quota" ->
             << createLogEntry("warn", "API quota exceeded - data logged for later retry",
                               withData, NoError, context.operation, context.submissionId),
                fallback >>
        [] category = "rate_limit" ->
             << createLogEntry("warn", "Rate limit exceeded - implementing backoff strategy",
                               ids, NoError, context.operation, context.submissionId) >>
        [] category = "network" ->
             << createLogEntry("warn", "Network connectivity issue detected",
                               ids, NoError, context.operation, context.submissionId) >>
        [] category = "validation" ->
             << createLogEntry("error", "Data validation failed - check form data format",
                               withData, error, context.operation, context.submissionId),
                fallback >>
        [] OTHER ->
             << createLogEntry("error", "Unknown error encountered",
                               withData, error, context.operation, context.submissionId),
                fallback >>

\* context.formData || {}
FormDataOrEmpty(formData) == IF Truthy(formData) THEN formData ELSE <<>>

\* the entries handleError logs, in order
handleErrorLog(error, context) ==
  LET category == classifyError(error)
      shouldRetry == handleErrorShouldRetry(error, context)
      retryDelay == handleErrorRetryDelay(error, context)
  IN  << logSubmissionFailure(context.submissionId, error,
                              FormDataOrEmpty(context.formData),
                              context.attemptNumber, shouldRetry),
         createLogEntry("error", "${category} error in ${context.operation}",
           [category |-> category, isRetryable |-> isRetryable(category),
            shouldRetry |-> shouldRetry, retryDelay |-> retryDelay,
            attemptNumber |-> AttemptOr1(context), maxRetries |-> ErrorHandlerMaxRetries],
           error, context.operation, context.submissionId) >>
      \o activateFallback(error, category, context)
      \o (IF shouldRetry /\ retryDelay # 0
          THEN << logRetryAttempt(context.submissionId, AttemptOr1(context),
                                  ErrorHandlerMaxRetries, error, retryDelay) >>
          ELSE <<>>)

logSuccess(operation, submissionId, context) ==
  createLogEntry("info", "${operation} completed successfully", context,
                 NoError, operation, submissionId)

logForManualRecovery(submissionId, formData, error, operation) ==
  createLogEntry("critical", "Manual data recovery required",
    [submissionId |-> submissionId,
     operation |-> operation,
     recoveryData |->
       [timestamp |-> formData.timestamp,
        name |-> formData.name,
        contactMethods |-> formData.contactMethods,
        email |-> formData.email,
        phone |-> formData.phone,
        socialPlatforms |-> formData.socialPlatforms,
        socialMediaHandle |-> formData.socialMediaHandle]],
    error, "manual_recovery", submissionId)

-----------------------------------------------------------------------------
(* Remote spreadsheet service: what one append call can answer *)

ErrorSamples ==
  { [name |-> <<"E","r","r","o","r">>,
     message |-> <<"N","e","t","w","o","r","k"," ","t","i","m","e","o","u","t">>],
    [name |-> <<"E","r","r","o","r">>,
     message |-> <<"R","a","t","e"," ","l","i","m","i","t"," ","e","x","c","e","e","d","e","d">>],
    [name |-> <<"E","r","r","o","r">>,
     message |-> <<"U","s","a","g","e"," ","l","i","m","i","t"," ","e","x","c","e","e","d","e","d">>],
    [name |-> <<"E","r","r","o","r">>,
     message |-> <<"S","e","r","v","i","c","e"," ","u","n","a","v","a","i","l","a","b","l","e">>],
    [name |-> <<"E","r","r","o","r">>,
     message |-> <<"P","e","r","m","i","s","s","i","o","n"," ","d","e","n","i","e","d">>],
    [name |-> <<"E","r","r","o","r">>,
     message |-> <<"i","n","v","a","l","i","d","_","g","r","a","n","t">>],
    [name |-> <<"E","r","r","o","r">>,
     message |-> <<"B","a","d"," ","r","e","q","u","e","s","t">>],
    [name |-> <<"E","r","r","o","r">>,
     message |-> <<"P","e","r","s","i","s","t","e","n","t"," ","e","r","r","o","r">>] }

StatusSamples == {200, 201, 500}

\* what the caller sees when the answer of the remote service does not arrive
TimeoutError ==
  [name |-> <<"E","r","r","o","r">>,
   message |-> <<"N","e","t","w","o","r","k"," ","t","i","m","e","o","u","t">>]

\* resolved with a status, rejected with an Error, rejected with a non-Error value,
\* or carried out by the remote service with the answer lost on its way back
RemoteOutcomes ==
  [kind : {"resolved"}, status : StatusSamples]
    \cup [kind : {"rejected"}, error : ErrorSamples]
    \cup {[kind |-> "rejected_value"], [kind |-> "lost_answer"]}

UnknownError ==
  [name |-> <<"E","r","r","o","r">>,
   message |-> <<"U","n","k","n","o","w","n"," ","e","r","r","o","r">>]

UnexpectedStatusError(status) ==
  [name |-> <<"E","r","r","o","r">>,
   message |-> <<"U","n","e","x","p","e","c","t","e","d"," ","r","e","s","p","o","n","s","e",
                 " ","s","t","a","t","u","s",":"," ">> \o NatToChars(status)]

-----------------------------------------------------------------------------
(* GoogleSheetsServiceImpl.appendFormData *)

maxRetries == 3

AppIdle ==
  [pc |-> "idle", data |-> <<>>, submissionId |-> NoId, attempt |-> 0,
   lastError |-> NoError, calls |-> 0, answers |-> <<>>, waits |-> <<>>,
   thrown |-> NoError]

\* a message that reports the attempts actually made instead of the configured maximum
AppendFailedErrorCountingCalls(lastError) ==
  [name |-> <<"E","r","r","o","r">>,
   message |-> <<"F","a","i","l","e","d"," ","t","o"," ","a","p","p","e","n","d"," ","d","a",
                 "t","a"," ","t","o"," ","G","o","o","g","l","e"," ","S","h","e","e","t","s",
                 " ","a","f","t","e","r"," ">> \o NatToChars(app.attempt)
               \o <<" ","a","t","t","e","m","p","t","s","."," ","L","a","s","t"," ","e","r",
                    "r","o","r",":"," ">> \o lastError.message]

AppendFailedError(lastError) ==
  [name |-> <<"E","r","r","o","r">>,
   message |-> <<"F","a","i","l","e","d"," ","t","o"," ","a","p","p","e","n","d"," ","d","a",
                 "t","a"," ","t","o"," ","G","o","o","g","l","e"," ","S","h","e","e","t","s",
                 " ","a","f","t","e","r"," ">> \o NatToChars(maxRetries)
               \o <<" ","a","t","t","e","m","p","t","s","."," ","L","a","s","t"," ","e","r",
                    "r","o","r",":"," ">> \o lastError.message]

\* the error caught by the attempt's catch block, as lastError
CaughtError(outcome) ==
  CASE outcome.kind = "resolved" -> UnexpectedStatusError(outcome.status)
    [] outcome.kind = "rejected" -> outcome.error
    [] outcome.kind = "lost_answer" -> TimeoutError
    [] OTHER -> UnknownError

\* a check that takes every 2xx status for a success
AttemptFailedUnless2xx(outcome) ==
  ~(outcome.kind = "resolved" /\ outcome.status \in 200..299)

AttemptFailed(outcome) == ~(outcome.kind = "resolved" /\ outcome.status = 200)

\* the remote appends the row when it answers the call with 200, and also when it
\* carried the call out and its answer was lost
RowsAfter(outcome, data) ==
  IF (outcome.kind = "resolved" /\ outcome.status = 200) \/ outcome.kind = "lost_answer"
  THEN Append(sheet, convertToSpreadsheetRow(data))
  ELSE sheet

\* entry of appendFormData: a fresh submission id and the start entry
appendFormDataEnter(data) ==
  /\ app.pc = "idle"
  /\ idCounter' = idCounter + 1
  /\ app' = [AppIdle EXCEPT !.pc = "attempt", !.data = data,
                            !.submissionId = idCounter + 1, !.attempt = 1]
  /\ log' = output(<< logSubmissionStart(idCounter + 1, data) >>)

AttemptStartEntry ==
  createLogEntry("debug", "Starting append attempt ${attempt}/${maxRetries}",
    [submissionId |-> app.submissionId, attempt |-> app.attempt,
     maxRetries |-> maxRetries, name |-> app.data.name],
    NoError, "append_data", app.submissionId)

\* a success branch that also files the submission for manual recovery
AttemptSuccessEntriesWithRecovery ==
  << logSheetsOperation(app.submissionId, TRUE, NoError, [attempt |-> app.attempt]),
     logSubmissionSuccess(app.submissionId, app.data),
     logSuccess("append_form_data", app.submissionId, [attempt |-> app.attempt]),
     logForManualRecovery(app.submissionId, app.data, UnknownError, "append_form_data") >>

AttemptSuccessEntries ==
  << logSheetsOperation(app.submissionId, TRUE, NoError, [attempt |-> app.attempt]),
     logSubmissionSuccess(app.submissionId, app.data),
     logSuccess("append_form_data", app.submissionId, [attempt |-> app.attempt]) >>

AttemptFailureEntries(lastError) ==
  LET errorContext == createErrorContext(app.submissionId, "append_form_data",
                                         app.data, app.attempt)
  IN  handleErrorLog(lastError, errorContext)
      \o << logSheetsOperation(app.submissionId, FALSE, lastError,
              [attempt |-> app.attempt,
               willRetry |-> handleErrorShouldRetry(lastError, errorContext)]) >>

\* the loop leaves on the last attempt or on an error that is not to be retried
\* a loop that leaves only on its last attempt, whatever handleError advises
BreakLoopAtLastAttemptOnly(lastError) == app.attempt = maxRetries

BreakLoop(lastError) ==
  \/ app.attempt = maxRetries
  \/ ~handleErrorShouldRetry(lastError,
        createErrorContext(app.submissionId, "append_form_data", app.data, app.attempt))

GiveUpEntries(lastError) ==
  << logForManualRecovery(app.submissionId, app.data, lastError, "append_form_data"),
     logSubmissionFailure(app.submissionId, lastError, app.data, maxRetries, FALSE) >>

\* one pass of the retry loop: the remote call and everything up to the next await
AppendAttempt ==
  /\ app.pc = "attempt"
  /\ \E outcome \in RemoteOutcomes :
       LET lastError == CaughtError(outcome)
           retryDelay == handleErrorRetryDelay(lastError,
                           createErrorContext(app.submissionId, "append_form_data",
                                              app.data, app.attempt))
           called == [app EXCEPT !.calls = app.calls + 1,
                                 !.answers = Append(app.answers, outcome)]
       IN  /\ sheet' = RowsAfter(outcome, app.data)
           /\ IF ~AttemptFailed(outcome)
              THEN /\ app' = [called EXCEPT !.pc = "returned"]
                   /\ log' = output(<< AttemptStartEntry >> \o AttemptSuccessEntries)
              ELSE IF BreakLoop(lastError)
              THEN /\ app' = [called EXCEPT !.pc = "thrown", !.lastError = lastError,
                                            !.thrown = AppendFailedError(lastError)]
                   /\ log' = output(<< AttemptStartEntry >>
                                    \o AttemptFailureEntries(lastError)
                                    \o GiveUpEntries(lastError))
              ELSE IF retryDelay # 0
              THEN /\ app' = [called EXCEPT !.pc = "waiting", !.lastError = lastError,
                                            !.waits = Append(app.waits, retryDelay)]
                   /\ log' = output(<< AttemptStartEntry >>
                                    \o AttemptFailureEntries(lastError)
                                    \o << createLogEntry("debug",
                                            "Waiting ${retryDelay}ms before retry",
                                            [submissionId |-> app.submissionId,
                                             attempt |-> app.attempt,
                                             retryDelay |-> retryDelay],
                                            NoError, "retry_delay", app.submissionId) >>)
              ELSE /\ app' = [called EXCEPT !.lastError = lastError,
                                            !.attempt = app.attempt + 1]
                   /\ log' = output(<< AttemptStartEntry >>
                                    \o AttemptFailureEntries(lastError))
  /\ UNCHANGED <<logLevel, idCounter, now, req, rateLimitedVars, clientVars, libVars>>

\* a timer after which the loop repeats the pass it was on
AppendWakeSameAttempt ==
  /\ app.pc = "waiting"
  /\ app' = [app EXCEPT !.pc = "attempt"]
  /\ UNCHANGED <<log, logLevel, idCounter, sheet, now, req, rateLimitedVars, clientVars, libVars>>

\* the backoff timer fires and the loop starts its next pass
AppendWake ==
  /\ app.pc = "waiting"
  /\ app' = [app EXCEPT !.pc = "attempt", !.attempt = app.attempt + 1]
  /\ UNCHANGED <<log, logLevel, idCounter, sheet, now, req, rateLimitedVars, clientVars, libVars>>

-----------------------------------------------------------------------------
(* The append client called directly with a sanitised payload *)

EmailSample == <<"j","o","h","n","@","e","x","a","m","p","l","e",".","c","o","m">>
PhoneSample == <<"(","5","5","5",")"," ","1","2","3","-","4","5","6","7">>
NameSample == <<"J","o","h","n"," ","D","o","e">>
HandleSample == <<"@","j","o","h","n","d","o","e">>
AddressSample == <<"1"," ","M","a","i","n"," ","S","t">>
EmailTag == <<"e","m","a","i","l">>
PhoneTag == <<"p","h","o","n","e">>
InstagramTag == <<"i","n","s","t","a","g","r","a","m">>
TiktokTag == <<"t","i","k","t","o","k">>

PayloadSamples ==
  { [timestamp |-> Str(ToISOString(7)), name |-> Str(NameSample),
     contactMethods |-> Arr(<<Str(EmailTag), Str(PhoneTag)>>),
     email |-> Str(EmailSample), phone |-> Str(PhoneSample),
     socialPlatforms |-> Arr(<<Str(InstagramTag), Str(TiktokTag)>>),
     socialMediaHandle |-> Str(HandleSample), address |-> Str(AddressSample)],
    [timestamp |-> Str(ToISOString(7)), name |-> Str(NameSample),
     contactMethods |-> Arr(<<Str(EmailTag)>>),
     email |-> Str(EmailSample), phone |-> Undefined,
     socialPlatforms |-> Arr(<<Str(InstagramTag)>>),
     socialMediaHandle |-> Str(HandleSample), address |-> Undefined],
    [timestamp |-> Str(ToISOString(7)), name |-> Str(NameSample),
     contactMethods |-> Arr(<<Str(PhoneTag)>>),
     email |-> Undefined, phone |-> Str(PhoneSample),
     socialPlatforms |-> Arr(<<Str(TiktokTag)>>),
     socialMediaHandle |-> Str(HandleSample), address |-> Str(AddressSample)] }

CallAppendFormData ==
  /\ req.pc = "none"
  /\ \E data \in PayloadSamples : appendFormDataEnter(data)
  /\ UNCHANGED <<logLevel, sheet, now, req, rateLimitedVars, clientVars, libVars>>

ReqNone ==
  [pc |-> "none", method |-> "", body |-> Undefined, submissionId |-> NoId,
   sanitizedData |-> Undefined, status |-> 0, response |-> <<>>]

StartInstant == 100

\* ids one run may draw; a request draws one and its append call another
MaxSubmissionIds == 2

\* the rate-limited function before its first request
RateLimitedAtRest ==
  /\ env = [turnstileSecret |-> TRUE, sheetsConfigured |-> TRUE]
  /\ submissionTracker = <<>>
  /\ decisions = <<>>
  /\ rlReq = <<>>

\* the page before the form is mounted
ClientAtRest ==
  /\ state = <<>>
  /\ localStorage = <<>>
  /\ sub = <<>>
  /\ clientLog = <<>>
  /\ showThankYou = FALSE

\* no library function was called on its own
NoCall == [fn |-> "", arg |-> Undefined, result |-> Undefined, answers |-> Undefined]

LibAtRest == call = NoCall

InitServer ==
  /\ log = <<>>
  /\ logLevel \in {"debug", "info"}
  /\ idCounter = 0
  /\ app = AppIdle
  /\ sheet = <<>>
  /\ now = StartInstant
  /\ req = ReqNone
  /\ RateLimitedAtRest
  /\ ClientAtRest
  /\ LibAtRest

InitAppend == InitServer

NextAppend == CallAppendFormData \/ AppendAttempt \/ AppendWake

SpecAppend == InitAppend /\ [][NextAppend]_vars

\* every remote call settles and every backoff timer fires
SpecAppendFair == SpecAppend /\ WF_vars(AppendAttempt) /\ WF_vars(AppendWake)

-----------------------------------------------------------------------------
(* Service-based handler: pages/api/submit-form *)

\* /^[^\s@]+@[^\s@]+\.[^\s@]+$/
isValidEmail(email) ==
  \E i \in 1..Len(email) : \E j \in 1..Len(email) :
     /\ email[i] = "@"
     /\ email[j] = "."
     /\ 1 < i /\ i + 1 < j /\ j < Len(email)
     /\ \A k \in 1..Len(email) :
           /\ email[k] \notin Whitespace
           /\ (email[k] = "@" => k = i)

\* a property that is present must be a non-blank string
BadOptionalString(x) == Truthy(x) /\ (~IsString(x) \/ Len(Trim(x.v)) = 0)

\* a required string property is missing, not a string, or blank
BadRequiredString(x) == ~Truthy(x) \/ ~IsString(x) \/ Len(Trim(x.v)) = 0

BadRequiredArray(x) == ~IsArray(x) \/ Len(x.v) = 0

\* validateFormData without its check of the email's shape
validateFormDataRequiredOnly(data) ==
  IF ~Truthy(data) \/ (~IsObject(data) /\ data.t \in {"string", "number"}) THEN FALSE
  ELSE IF BadRequiredString(Prop(data, "name")) THEN FALSE
  ELSE IF BadRequiredString(Prop(data, "socialMediaHandle")) THEN FALSE
  ELSE IF BadRequiredArray(Prop(data, "contactMethods")) THEN FALSE
  ELSE IF BadRequiredArray(Prop(data, "socialPlatforms")) THEN FALSE
  ELSE IF BadOptionalString(Prop(data, "phone")) THEN FALSE
  ELSE IF BadOptionalString(Prop(data, "address")) THEN FALSE
  ELSE TRUE

validateFormData(data) ==
  IF ~Truthy(data) \/ (~IsObject(data) /\ data.t \in {"string", "number"}) THEN FALSE
  ELSE IF BadRequiredString(Prop(data, "name")) THEN FALSE
  ELSE IF BadRequiredString(Prop(data, "socialMediaHandle")) THEN FALSE
  ELSE IF BadRequiredArray(Prop(data, "contactMethods")) THEN FALSE
  ELSE IF BadRequiredArray(Prop(data, "socialPlatforms")) THEN FALSE
  ELSE IF Truthy(Prop(data, "email"))
          /\ (~IsString(data.email) \/ ~isValidEmail(Trim(data.email.v))) THEN FALSE
  ELSE IF BadOptionalString(Prop(data, "phone")) THEN FALSE
  ELSE IF BadOptionalString(Prop(data, "address")) THEN FALSE
  ELSE TRUE

nameCap == 100
tagCap == 50
emailCap == 100
phoneCap == 20
handleCap == 100
addressCap == 500

\* x.trim().substring(0, n)
TrimCap(x, n) == Str(Substring0(Trim(x.v), n))

\* x?.trim().substring(0, n)
OptionalTrimCap(x, n) == IF x.t \in {"undefined", "null"} THEN Undefined ELSE TrimCap(x, n)

\* a.map(e => e.trim().substring(0, n))
MapTrimCap(a, n) == Arr([i \in 1..Len(a.v) |-> TrimCap(a.v[i], n)])

\* calling trim on a value that is not a string raises a TypeError
TrimThrows(x) == ~IsString(x)

sanitizeThrows(data) ==
  \/ \E i \in 1..Len(data.contactMethods.v) : TrimThrows(data.contactMethods.v[i])
  \/ \E i \in 1..Len(data.socialPlatforms.v) : TrimThrows(data.socialPlatforms.v[i])
  \/ \E f \in {"email", "phone", "address"} :
        Prop(data, f).t \notin {"undefined", "null"} /\ TrimThrows(Prop(data, f))

\* a sanitiser that keeps the timestamp the client sent
sanitizeFormDataClientTimestamp(data) ==
  [timestamp |-> Prop(data, "timestamp"),
   name |-> TrimCap(data.name, nameCap),
   contactMethods |-> MapTrimCap(data.contactMethods, tagCap),
   email |-> OptionalTrimCap(Prop(data, "email"), emailCap),
   phone |-> OptionalTrimCap(Prop(data, "phone"), phoneCap),
   socialPlatforms |-> MapTrimCap(data.socialPlatforms, tagCap),
   socialMediaHandle |-> TrimCap(data.socialMediaHandle, handleCap),
   address |-> OptionalTrimCap(Prop(data, "address"), addressCap)]

sanitizeFormData(data) ==
  [timestamp |-> Str(ToISOString(now)),
   name |-> TrimCap(data.name, nameCap),
   contactMethods |-> MapTrimCap(data.contactMethods, tagCap),
   email |-> OptionalTrimCap(Prop(data, "email"), emailCap),
   phone |-> OptionalTrimCap(Prop(data, "phone"), phoneCap),
   socialPlatforms |-> MapTrimCap(data.socialPlatforms, tagCap),
   socialMediaHandle |-> TrimCap(data.socialMediaHandle, handleCap),
   address |-> OptionalTrimCap(Prop(data, "address"), addressCap)]

TrimTypeError ==
  [name |-> <<"T","y","p","e","E","r","r","o","r">>,
   message |-> <<"m","e","t","h","o","d",".","t","r","i","m"," ","i","s"," ","n","o","t",
                 " ","a"," ","f","u","n","c","t","i","o","n">>]

MissingEnvError ==
  [name |-> <<"E","r","r","o","r">>,
   message |-> <<"M","i","s","s","i","n","g"," ","r","e","q","u","i","r","e","d"," ","e","n",
                 "v","i","r","o","n","m","e","n","t"," ","v","a","r","i","a","b","l","e","s",
                 ":"," ","G","O","O","G","L","E","_","S","H","E","E","T","S","_","P","R","I",
                 "V","A","T","E","_","K","E","Y"," ","m","u","s","t"," ","b","e"," ","s","e",
                 "t">>]

ClientInitError(err) ==
  [name |-> <<"E","r","r","o","r">>,
   message |-> <<"F","a","i","l","e","d"," ","t","o"," ","i","n","i","t","i","a","l","i","z",
                 "e"," ","G","o","o","g","l","e"," ","S","h","e","e","t","s"," ","c","l","i",
                 "e","n","t",":"," ">> \o err.message]

ConnectionValidationError ==
  [name |-> <<"E","r","r","o","r">>,
   message |-> <<"C","o","n","n","e","c","t","i","o","n"," ","v","a","l","i","d","a","t","i",
                 "o","n"," ","f","a","i","l","e","d">>]

\* what createGoogleSheetsServiceFromEnv can do: return a service, find the
\* environment incomplete, or fail while building the API client
ServiceInitOutcomes ==
  {[kind |-> "ok"], [kind |-> "missing_env"]}
    \cup [kind : {"client_error"},
          error : {e \in ErrorSamples :
                     e.message \in {<<"i","n","v","a","l","i","d","_","g","r","a","n","t">>,
                                    <<"P","e","r","s","i","s","t","e","n","t"," ","e","r","r",
                                      "o","r">>}}]

ServiceInitFailed(init) == init.kind # "ok"

ServiceInitError(init) ==
  IF init.kind = "missing_env" THEN MissingEnvError ELSE ClientInitError(init.error)

\* the entries createGoogleSheetsServiceFromEnv logs
createGoogleSheetsServiceFromEnvLog(init) ==
  << createLogEntry("debug", "Creating Google Sheets service from environment variables",
                    <<>>, NoError, "service_creation", NoId) >>
  \o (CASE init.kind = "missing_env" ->
             << createLogEntry("critical",
                  "Missing required environment variables for Google Sheets service",
                  <<>>, MissingEnvError, "service_creation", NoId) >>
        [] init.kind = "client_error" ->
             << createLogEntry("debug", "Initializing Google Sheets client", <<>>,
                               NoError, "client_initialization", NoId),
                logAuthenticationFailure(init.error, <<>>) >>
        [] OTHER ->
             << createLogEntry("debug", "Initializing Google Sheets client", <<>>,
                               NoError, "client_initialization", NoId),
                createLogEntry("info", "Google Sheets client initialized successfully",
                               <<>>, NoError, "client_initialization", NoId),
                createLogEntry("info", "Google Sheets authentication successful", <<>>,
                               NoError, "authentication", NoId),
                createLogEntry("info", "Google Sheets service created successfully", <<>>,
                               NoError, "service_creation", NoId) >>)
  \o (IF ServiceInitFailed(init)
      THEN << createLogEntry("error",
                "Failed to create Google Sheets service from environment", <<>>,
                ServiceInitError(init), "service_creation", NoId) >>
      ELSE <<>>)

SuccessResponse == [success |-> TRUE, message |-> "Form submitted successfully"]
InvalidResponse == [success |-> FALSE, message |-> "Invalid form data"]
MethodNotAllowedResponse == [success |-> FALSE, message |-> "Method not allowed"]

\* a handler whose outer catch answers with a server error
RespondErrorFromCatch(r, status, response) ==
  IF status = 200 /\ r.sanitizedData = Undefined
  THEN [r EXCEPT !.pc = "responded", !.status = 500,
                 !.response = [success |-> FALSE, message |-> "Internal server error"]]
  ELSE [r EXCEPT !.pc = "responded", !.status = status, !.response = response]

Respond(r, status, response) ==
  [r EXCEPT !.pc = "responded", !.status = status, !.response = response]

\* a handler that also lets PUT through
MethodAllowedWithPut(method) == method \in {"POST", "PUT"}

\* the handler's method check
MethodAllowed(method) == method = "POST"

\* the handler from its entry to its first await that leaves the process
HandlerReceive(method, body, init) ==
  LET submissionId == idCounter + 1
      r == [ReqNone EXCEPT !.method = method, !.body = body,
                           !.submissionId = submissionId]
      received == createLogEntry("info", "API request received", [method |-> method],
                                 NoError, "api_request", submissionId)
      sanitizedData == sanitizeFormData(body)
      processing == createLogEntry("info", "Processing form submission",
                      [name |-> sanitizedData.name,
                       contactMethods |-> sanitizedData.contactMethods,
                       socialPlatforms |-> sanitizedData.socialPlatforms,
                       hasEmail |-> Truthy(sanitizedData.email),
                       hasPhone |-> Truthy(sanitizedData.phone),
                       hasAddress |-> Truthy(sanitizedData.address)],
                      NoError, "form_processing", submissionId)
  IN  /\ req.pc \in {"none", "responded"}
      /\ app.pc \in {"idle", "returned", "thrown"}
      /\ idCounter + 2 <= MaxSubmissionIds
      /\ idCounter' = submissionId
      /\ IF ~MethodAllowed(method)
         THEN /\ req' = Respond(r, 405, MethodNotAllowedResponse)
              /\ log' = output(<< received,
                                  createLogEntry("warn", "Invalid request method",
                                    [method |-> method], NoError, "api_request",
                                    submissionId) >>)
         ELSE IF ~validateFormData(body)
         THEN /\ req' = Respond(r, 400, InvalidResponse)
              /\ log' = output(<< received,
                                  createLogEntry("warn", "Invalid form data received",
                                    [hasBody |-> Truthy(body)], NoError, "validation",
                                    submissionId) >>)
         ELSE IF sanitizeThrows(body)
         THEN \* the outer catch
              /\ req' = Respond(r, 200, SuccessResponse)
              /\ log' = output(<< received >>
                               \o handleErrorLog(TrimTypeError,
                                    createErrorContext(submissionId, "api_handler", body, 0))
                               \o << createLogEntry("error", "Unexpected API error",
                                       [requestBody |-> body], TrimTypeError,
                                       "api_handler", submissionId) >>)
         ELSE IF ServiceInitFailed(init)
         THEN /\ req' = Respond([r EXCEPT !.sanitizedData = sanitizedData],
                                200, SuccessResponse)
              /\ log' = output(<< received, processing >>
                               \o createGoogleSheetsServiceFromEnvLog(init)
                               \o handleErrorLog(ServiceInitError(init),
                                    createErrorContext(submissionId,
                                      "service_initialization", sanitizedData, 0))
                               \o << createLogEntry("warn",
                                       "Service initialization failed but returning success to user",
                                       [error |-> ServiceInitError(init).message],
                                       NoError, "api_response", submissionId) >>)
         ELSE /\ req' = [r EXCEPT !.pc = "connection_check",
                                  !.sanitizedData = sanitizedData]
              /\ log' = output(<< received, processing >>
                               \o createGoogleSheetsServiceFromEnvLog(init))
      /\ UNCHANGED <<logLevel, app, sheet, now, rateLimitedVars, clientVars, libVars>>

\* what validateConnection can meet: a 200 answer with data, another answer, a rejection
ConnectionOutcomes == {"valid", "invalid_response", "rejected"}

validateConnectionLog(outcome) ==
  << createLogEntry("debug", "Validating Google Sheets connection", <<>>, NoError,
                    "connection_validation", NoId) >>
  \o (CASE outcome = "valid" ->
             << createLogEntry("info", "Google Sheets connection validation successful",
                               <<>>, NoError, "connection_validation", NoId) >>
        [] outcome = "invalid_response" ->
             << createLogEntry("warn", "Google Sheets connection validation failed",
                               <<>>, NoError, "connection_validation", NoId) >>
        [] OTHER ->
             << createLogEntry("warn", "Google Sheets connection validation failed",
                               <<>>, NoError, "connection_validation", NoId),
                createLogEntry("error", "Connection validation error details", <<>>,
                               UnknownError, "connection_validation", NoId) >>)

\* a handler that answers at once, without appending, when the pre-check fails
HandlerConnectionCheckedGating ==
  /\ req.pc = "connection_check"
  /\ \E outcome \in ConnectionOutcomes :
       IF outcome = "valid"
       THEN /\ idCounter' = idCounter + 1
            /\ app' = [AppIdle EXCEPT !.pc = "attempt", !.data = req.sanitizedData,
                                      !.submissionId = idCounter + 1, !.attempt = 1]
            /\ log' = output(validateConnectionLog(outcome)
                             \o << logSubmissionStart(idCounter + 1, req.sanitizedData) >>)
            /\ req' = [req EXCEPT !.pc = "appending"]
       ELSE /\ log' = output(validateConnectionLog(outcome)
                             \o << createLogEntry("warn",
                                     "Google Sheets connection validation failed",
                                     [submissionId |-> req.submissionId], NoError,
                                     "connection_validation", req.submissionId) >>)
            /\ req' = Respond(req, 200, SuccessResponse)
            /\ UNCHANGED <<idCounter, app>>
  /\ UNCHANGED <<logLevel, sheet, now, rateLimitedVars, clientVars, libVars>>

\* validateConnection has settled; the handler goes on to call appendFormData
HandlerConnectionChecked ==
  /\ req.pc = "connection_check"
  /\ \E outcome \in ConnectionOutcomes :
       LET connectionValid == (outcome = "valid")
           entries ==
             validateConnectionLog(outcome)
             \o (IF connectionValid THEN <<>>
                 ELSE << createLogEntry("warn", "Google Sheets connection validation failed",
                           [submissionId |-> req.submissionId], NoError,
                           "connection_validation", req.submissionId),
                         logForManualRecovery(req.submissionId, req.sanitizedData,
                           ConnectionValidationError, "connection_validation") >>)
           submissionId == idCounter + 1
       IN  /\ idCounter' = submissionId
           /\ app' = [AppIdle EXCEPT !.pc = "attempt", !.data = req.sanitizedData,
                                     !.submissionId = submissionId, !.attempt = 1]
           /\ log' = output(entries \o << logSubmissionStart(submissionId, req.sanitizedData) >>)
  /\ req' = [req EXCEPT !.pc = "appending"]
  /\ UNCHANGED <<logLevel, sheet, now, rateLimitedVars, clientVars, libVars>>

\* appendFormData has returned or thrown; the handler answers
HandlerAppendSettled ==
  /\ req.pc = "appending"
  /\ app.pc \in {"returned", "thrown"}
  /\ LET sent == createLogEntry("info", "API response sent", [success |-> TRUE],
                                NoError, "api_response", req.submissionId)
     IN  IF app.pc = "returned"
         THEN log' = output(<< createLogEntry("info",
                                 "Form submission successfully processed",
                                 [name |-> req.sanitizedData.name,
                                  timestamp |-> req.sanitizedData.timestamp],
                                 NoError, "form_processing", req.submissionId),
                               logSuccess("form_submission", req.submissionId,
                                          [name |-> req.sanitizedData.name]),
                               sent >>)
         ELSE log' = output(handleErrorLog(app.thrown,
                                createErrorContext(req.submissionId, "google_sheets_append",
                                                   req.sanitizedData, 0))
                            \o << logForManualRecovery(req.submissionId, req.sanitizedData,
                                                       app.thrown, "google_sheets_append"),
                                  sent >>)
  /\ req' = Respond(req, 200, SuccessResponse)
  /\ UNCHANGED <<logLevel, idCounter, app, sheet, now, rateLimitedVars, clientVars, libVars>>

-----------------------------------------------------------------------------
(* Requests *)

ClientTimestamp == Str(ToISOString(7))

ValidBody ==
  [timestamp |-> ClientTimestamp, name |-> Str(NameSample),
   contactMethods |-> Arr(<<Str(EmailTag), Str(PhoneTag)>>),
   email |-> Str(EmailSample), phone |-> Str(PhoneSample),
   socialPlatforms |-> Arr(<<Str(InstagramTag), Str(TiktokTag)>>),
   socialMediaHandle |-> Str(HandleSample), address |-> Str(AddressSample)]

\* the "email" method with no optional field at all
MinimalBody ==
  [ValidBody EXCEPT !.contactMethods = Arr(<<Str(EmailTag)>>), !.email = Undefined,
                    !.phone = Undefined, !.socialPlatforms = Arr(<<Str(InstagramTag)>>),
                    !.address = Undefined]

PaddedLongName == <<" ", " ">> \o Repeat("a", 150) \o <<" ", " ">>
PaddedLongHandle == <<" ", " ", "@">> \o Repeat("b", 150) \o <<" ", " ">>

\* two words, the space between them at the last place the cap keeps
SpaceAtCapName == Repeat("a", nameCap - 1) \o <<" ", "b">>

\* bodies that pass validateFormData
AcceptedBodySamples ==
  { ValidBody,
    MinimalBody,
    [MinimalBody EXCEPT !.contactMethods = Arr(<<Str(PhoneTag)>>),
                        !.phone = Str(<<"1","2","3">>)],
    [ValidBody EXCEPT !.contactMethods = Arr(<<Num(1)>>)],
    [ValidBody EXCEPT !.name = Str(PaddedLongName),
                      !.socialMediaHandle = Str(PaddedLongHandle),
                      !.address = Undefined],
    [MinimalBody EXCEPT !.name = Str(SpaceAtCapName)] }

\* bodies that validateFormData turns down
RejectedBodySamples ==
  { Null, Undefined, Str(NameSample), Arr(<<>>),
    [ValidBody EXCEPT !.name = Str(<<" ", " ">>)],
    [ValidBody EXCEPT !.name = Undefined],
    [ValidBody EXCEPT !.name = Num(1)],
    [ValidBody EXCEPT !.socialMediaHandle = Str(<<>>)],
    [ValidBody EXCEPT !.contactMethods = Arr(<<>>)],
    [ValidBody EXCEPT !.contactMethods = Str(EmailTag)],
    [ValidBody EXCEPT !.socialPlatforms = Arr(<<>>)],
    [ValidBody EXCEPT !.socialPlatforms = Undefined],
    [ValidBody EXCEPT !.email = Str(<<"i","n","v","a","l","i","d","-","e","m","a","i","l">>)],
    [ValidBody EXCEPT !.email = Num(1)],
    [ValidBody EXCEPT !.phone = Str(<<" ", " ">>)],
    [ValidBody EXCEPT !.address = Str(<<" ">>)] }

BodySamples == AcceptedBodySamples \cup RejectedBodySamples

MethodSamples == {"POST", "GET", "PUT"}

Receive ==
  \E method \in MethodSamples : \E body \in BodySamples : \E init \in ServiceInitOutcomes :
     HandlerReceive(method, body, init)

Init == InitServer

Next ==
  \/ Receive
  \/ HandlerConnectionChecked
  \/ AppendAttempt
  \/ AppendWake
  \/ HandlerAppendSettled

Spec == Init /\ [][Next]_vars

-----------------------------------------------------------------------------
(* Rate-limited handler: api/submit-form *)

RATE_LIMIT_WINDOW == 60000
MAX_SUBMISSIONS_PER_WINDOW == 3

\* submissionTracker.get(key) is defined
HasTracker(clientIP) == clientIP \in DOMAIN submissionTracker

\* submissionTracker.set(key, entry)
TrackerSet(clientIP, entry) ==
  [k \in DOMAIN submissionTracker \cup {clientIP} |->
     IF k = clientIP THEN entry ELSE submissionTracker[k]]

\* a limiter that lets the count pass the maximum by one
checkRateLimitOneOver(clientIP) ==
  IF ~HasTracker(clientIP)
  THEN [admitted |-> TRUE,
        tracker |-> TrackerSet(clientIP, [count |-> 1, lastSubmission |-> now])]
  ELSE IF now - submissionTracker[clientIP].lastSubmission > RATE_LIMIT_WINDOW
  THEN [admitted |-> TRUE,
        tracker |-> TrackerSet(clientIP, [count |-> 1, lastSubmission |-> now])]
  ELSE IF submissionTracker[clientIP].count <= MAX_SUBMISSIONS_PER_WINDOW
  THEN [admitted |-> TRUE,
        tracker |-> TrackerSet(clientIP,
                      [count |-> submissionTracker[clientIP].count + 1,
                       lastSubmission |-> now])]
  ELSE [admitted |-> FALSE, tracker |-> submissionTracker]

\* a limiter that notes the instant of a request it refuses
checkRateLimitTouchOnRefusal(clientIP) ==
  IF ~HasTracker(clientIP)
  THEN [admitted |-> TRUE,
        tracker |-> TrackerSet(clientIP, [count |-> 1, lastSubmission |-> now])]
  ELSE IF now - submissionTracker[clientIP].lastSubmission > RATE_LIMIT_WINDOW
  THEN [admitted |-> TRUE,
        tracker |-> TrackerSet(clientIP, [count |-> 1, lastSubmission |-> now])]
  ELSE IF submissionTracker[clientIP].count < MAX_SUBMISSIONS_PER_WINDOW
  THEN [admitted |-> TRUE,
        tracker |-> TrackerSet(clientIP,
                      [count |-> submissionTracker[clientIP].count + 1,
                       lastSubmission |-> now])]
  ELSE [admitted |-> FALSE,
        tracker |-> TrackerSet(clientIP,
                      [count |-> submissionTracker[clientIP].count,
                       lastSubmission |-> now])]

\* the value checkRateLimit returns and the map it leaves behind
checkRateLimit(clientIP) ==
  IF ~HasTracker(clientIP)
  THEN [admitted |-> TRUE,
        tracker |-> TrackerSet(clientIP, [count |-> 1, lastSubmission |-> now])]
  ELSE IF now - submissionTracker[clientIP].lastSubmission > RATE_LIMIT_WINDOW
  THEN [admitted |-> TRUE,
        tracker |-> TrackerSet(clientIP, [count |-> 1, lastSubmission |-> now])]
  ELSE IF submissionTracker[clientIP].count < MAX_SUBMISSIONS_PER_WINDOW
  THEN [admitted |-> TRUE,
        tracker |-> TrackerSet(clientIP,
                      [count |-> submissionTracker[clientIP].count + 1,
                       lastSubmission |-> now])]
  ELSE [admitted |-> FALSE, tracker |-> submissionTracker]

\* the history after checkRateLimit(clientIP) answered: the instant, the answer and
\* the count the entry holds afterwards
Decided(clientIP, limit) ==
  LET before == IF clientIP \in DOMAIN decisions THEN decisions[clientIP] ELSE <<>>
      entry == [at |-> now, admitted |-> limit.admitted,
                count |-> limit.tracker[clientIP].count]
  IN  [k \in DOMAIN decisions \cup {clientIP} |->
         IF k = clientIP THEN Append(before, entry) ELSE decisions[k]]

validateFormDataRL(data) ==
  IF ~Truthy(data) \/ (~IsObject(data) /\ data.t \in {"string", "number"}) THEN FALSE
  ELSE IF BadRequiredString(Prop(data, "name")) THEN FALSE
  ELSE IF BadRequiredString(Prop(data, "socialMediaHandle")) THEN FALSE
  ELSE IF BadRequiredString(Prop(data, "turnstileToken")) THEN FALSE
  ELSE IF BadRequiredArray(Prop(data, "contactMethods")) THEN FALSE
  ELSE IF BadRequiredArray(Prop(data, "socialPlatforms")) THEN FALSE
  ELSE IF Truthy(Prop(data, "email"))
          /\ (~IsString(data.email) \/ ~isValidEmail(Trim(data.email.v))) THEN FALSE
  ELSE IF BadOptionalString(Prop(data, "phone")) THEN FALSE
  ELSE IF BadOptionalString(Prop(data, "address")) THEN FALSE
  ELSE TRUE

addressCapRL == 200

sanitizeFormDataRL(data) ==
  [timestamp |-> Str(ToISOString(now)),
   name |-> TrimCap(data.name, nameCap),
   contactMethods |-> MapTrimCap(data.contactMethods, tagCap),
   email |-> OptionalTrimCap(Prop(data, "email"), emailCap),
   phone |-> OptionalTrimCap(Prop(data, "phone"), phoneCap),
   socialPlatforms |-> MapTrimCap(data.socialPlatforms, tagCap),
   socialMediaHandle |-> TrimCap(data.socialMediaHandle, handleCap),
   address |-> OptionalTrimCap(Prop(data, "address"), addressCapRL),
   turnstileToken |-> Str(Trim(data.turnstileToken.v))]

\* the row appendToGoogleSheets sends: the ISO timestamp as it is
appendToGoogleSheetsRow(formData) ==
  [timestamp |-> formData.timestamp.v,
   name |-> formData.name.v,
   contactMethods |-> Join(formData.contactMethods.v, <<",", " ">>),
   email |-> OrEmpty(formData.email),
   phone |-> OrEmpty(formData.phone),
   socialPlatforms |-> Join(formData.socialPlatforms.v, <<",", " ">>),
   socialMediaHandle |-> formData.socialMediaHandle.v,
   address |-> OrEmpty(formData.address)]

\* what the siteverify call can do: answer success true, answer anything else,
\* be rejected, or answer with a body that is not JSON
TurnstileOutcomes == {"success", "failure", "rejected", "bad_json"}

\* validateTurnstileToken's result once the call has settled
\* a check that fails only when the call itself fails
validateTurnstileTokenUnlessRejected(outcome) == outcome # "rejected"

validateTurnstileToken(outcome) == outcome = "success"

\* what the spreadsheet call can do
SheetsOutcomes == {"status_200", "status_other", "rejected"}

\* trail is the history of the activation: what each check answered, in the order
\* the checks were made, and "append" once the spreadsheet call is made
RLNone ==
  [pc |-> "none", method |-> "", ip |-> "", body |-> Undefined,
   sanitizedData |-> Undefined, status |-> 0, response |-> <<>>, trail |-> <<>>]

Trailed(r, events) == [r EXCEPT !.trail = r.trail \o events]

TooManyResponse ==
  [success |-> FALSE,
   message |-> "Too many submissions. Please wait a moment and try again."]

VerificationFailedResponse ==
  [success |-> FALSE, message |-> "Verification failed. Please try again."]

RLRespond(r, status, response) ==
  [r EXCEPT !.pc = "responded", !.status = status, !.response = response]

\* the handler after a verification that passed, up to the spreadsheet call
RLAfterVerification(r) ==
  IF env.sheetsConfigured
  THEN Trailed([r EXCEPT !.pc = "appending"], <<"append">>)
  ELSE RLRespond(r, 200, SuccessResponse)

\* the handler from its entry to the siteverify call
RLHandlerReceive(k, method, clientIP, body) ==
  LET r == [RLNone EXCEPT !.method = method, !.ip = clientIP, !.body = body]
      limit == checkRateLimit(clientIP)
      sanitizedData == sanitizeFormDataRL(body)
  IN  /\ rlReq[k].pc = "none"
      /\ \A j \in 1..(k - 1) : rlReq[j].pc # "none"
      /\ IF method = "OPTIONS"
         THEN /\ rlReq' = [rlReq EXCEPT ![k] = RLRespond(r, 200, <<>>)]
              /\ UNCHANGED <<submissionTracker, decisions>>
         ELSE IF method # "POST"
         THEN /\ rlReq' = [rlReq EXCEPT ![k] = RLRespond(r, 405, MethodNotAllowedResponse)]
              /\ UNCHANGED <<submissionTracker, decisions>>
         ELSE /\ submissionTracker' = limit.tracker
              /\ decisions' = Decided(clientIP, limit)
              /\ rlReq' = [rlReq EXCEPT ![k] =
                   IF ~limit.admitted
                   THEN RLRespond(Trailed(r, <<"refused">>), 429, TooManyResponse)
                   ELSE IF ~validateFormDataRL(body)
                   THEN RLRespond(Trailed(r, <<"admitted", "invalid">>),
                                  400, InvalidResponse)
                   ELSE IF sanitizeThrows(body)
                   THEN RLRespond(Trailed(r, <<"admitted", "valid">>),
                                  200, SuccessResponse)
                   ELSE IF ~env.turnstileSecret
                   THEN RLRespond(Trailed([r EXCEPT !.sanitizedData = sanitizedData],
                                          <<"admitted", "valid", "failed">>),
                                  400, VerificationFailedResponse)
                   ELSE Trailed([r EXCEPT !.pc = "verifying",
                                          !.sanitizedData = sanitizedData],
                                <<"admitted", "valid">>)]
      /\ UNCHANGED <<env, sheet, now, serviceVars, clientVars, libVars>>

\* the siteverify call has settled
RLVerified(k) ==
  /\ rlReq[k].pc = "verifying"
  /\ \E outcome \in TurnstileOutcomes :
       rlReq' = [rlReq EXCEPT ![k] =
          LET r == Trailed(rlReq[k],
                           << IF outcome = "success" THEN "verified" ELSE "failed" >>)
          IN  IF validateTurnstileToken(outcome)
              THEN RLAfterVerification(r)
              ELSE RLRespond(r, 400, VerificationFailedResponse)]
  /\ UNCHANGED <<env, submissionTracker, decisions, sheet, now, serviceVars, clientVars, libVars>>

\* the spreadsheet call has settled; the handler answers whatever came of it
RLAppendSettled(k) ==
  /\ rlReq[k].pc = "appending"
  /\ \E outcome \in SheetsOutcomes :
       sheet' = IF outcome = "status_200"
                THEN Append(sheet, appendToGoogleSheetsRow(rlReq[k].sanitizedData))
                ELSE sheet
  /\ rlReq' = [rlReq EXCEPT ![k] = RLRespond(rlReq[k], 200, SuccessResponse)]
  /\ UNCHANGED <<env, submissionTracker, decisions, now, serviceVars, clientVars, libVars>>

\* requests one run handles
MaxRLRequests == 3

\* time the clock may advance in one run, in milliseconds
MaxElapsed == 60001

\* half a window, and the first instant past it
TickDeltas == {30000, 30001}

Tick ==
  /\ \E d \in TickDeltas :
        /\ now + d <= StartInstant + MaxElapsed
        /\ now' = now + d
  /\ UNCHANGED <<sheet, serviceVars, rateLimitedVars, clientVars, libVars>>

IPSamples == {"203.0.113.1", "203.0.113.2"}

TokenSample == <<"t","o","k","e","n">>

WithToken(body, token) ==
  [f \in DOMAIN body \cup {"turnstileToken"} |->
     IF f = "turnstileToken" THEN token ELSE body[f]]

RLBodySamples ==
  { WithToken(ValidBody, Str(<<" ">> \o TokenSample)),
    WithToken([ValidBody EXCEPT !.contactMethods = Arr(<<Num(1)>>)], Str(TokenSample)),
    ValidBody }

RLMethodSamples == {"POST", "GET", "OPTIONS"}

\* a request that is not a POST is taken with no body and no address: the handler
\* reads neither
RLReceive ==
  \E k \in 1..MaxRLRequests : \E method \in RLMethodSamples :
    \E clientIP \in IPSamples \cup {""} : \E body \in RLBodySamples \cup {Undefined} :
       /\ (method = "POST") = (body # Undefined)
       /\ (method = "POST") = (clientIP # "")
       /\ RLHandlerReceive(k, method, clientIP, body)

\* the limiter's map when the run starts: empty, or holding what two requests of the
\* first address left in it at the starting instant
TrackerSamples ==
  { <<>>,
    [k \in {"203.0.113.1"} |-> [count |-> 2, lastSubmission |-> StartInstant]] }

\* the history that goes with a map of TrackerSamples
DecisionsOf(tracker) ==
  [k \in DOMAIN tracker |->
     [i \in 1..tracker[k].count |->
        [at |-> tracker[k].lastSubmission, admitted |-> TRUE, count |-> i]]]

RLSiteverifySettles == \E k \in 1..MaxRLRequests : RLVerified(k)

RLSheetsSettles == \E k \in 1..MaxRLRequests : RLAppendSettled(k)

InitRateLimited ==
  /\ log = <<>>
  /\ logLevel = "info"
  /\ idCounter = 0
  /\ app = AppIdle
  /\ req = ReqNone
  /\ sheet = <<>>
  /\ now = StartInstant
  /\ env \in [turnstileSecret : BOOLEAN, sheetsConfigured : BOOLEAN]
  /\ submissionTracker \in TrackerSamples
  /\ decisions = DecisionsOf(submissionTracker)
  /\ rlReq = [k \in 1..MaxRLRequests |-> RLNone]
  /\ ClientAtRest
  /\ LibAtRest

NextRateLimited == RLReceive \/ RLSiteverifySettles \/ RLSheetsSettles \/ Tick

SpecRateLimited == InitRateLimited /\ [][NextRateLimited]_vars

-----------------------------------------------------------------------------
(* The two handlers are two deployments: a process runs one of them *)

\* the process has served nothing as the rate-limited function, and holds nothing
\* of it: no limiter entry, and the environment the service-based handler starts in
RateLimitedUntouched ==
  /\ \A k \in 1..MaxRLRequests : rlReq[k].pc = "none"
  /\ now = StartInstant
  /\ submissionTracker = <<>>
  /\ env = [turnstileSecret |-> TRUE, sheetsConfigured |-> TRUE]

\* the process has served nothing as the service-based handler
ServiceUntouched == req.pc = "none" /\ app.pc = "idle" /\ idCounter = 0

InitHandlers == InitRateLimited

NextHandlers ==
  \/ RateLimitedUntouched /\ Next
  \/ ServiceUntouched /\ NextRateLimited

SpecHandlers == InitHandlers /\ [][NextHandlers]_vars

-----------------------------------------------------------------------------
(* Data formatter: lib/dataFormatter *)

\* String(x || '')
StringOrEmpty(x) == IF Truthy(x) THEN x.v ELSE <<>>

\* x?.trim()
OptionalTrim(x) == IF x.t \in {"undefined", "null"} THEN Undefined ELSE Str(Trim(x.v))

\* x || undefined
OrUndefined(x) == IF Truthy(x) THEN x ELSE Undefined

\* x || []
OrEmptyArray(x) == IF Truthy(x) THEN x ELSE Arr(<<>>)

\* a.includes(s) for an array of strings
ArrayIncludes(a, s) == \E i \in 1..Len(a.v) : a.v[i] = Str(s)

\* contactInfo?.f
ContactProp(contactInfo, f) ==
  IF Truthy(contactInfo) THEN Prop(contactInfo, f) ELSE Undefined

\* phone.replace(/\D/g, '')
DigitsOnly(phone) == SelectSeq(phone, LAMBDA c : c \in Digits)

\* 10 to 15 digits once everything else is stripped
isValidPhone(phone) == Len(DigitsOnly(phone)) >= 10 /\ Len(DigitsOnly(phone)) <= 15

\* a formatter that forwards the strings as they were typed
formatFormDataForSubmissionUntrimmed(answers) ==
  [timestamp |-> Str(ToISOString(now)),
   name |-> Str(StringOrEmpty(answers.name)),
   contactMethods |-> OrEmptyArray(ContactProp(answers.contact_info, "methods")),
   email |-> OrUndefined(ContactProp(answers.contact_info, "email")),
   phone |-> OrUndefined(ContactProp(answers.contact_info, "phone")),
   socialPlatforms |-> OrEmptyArray(answers.platform),
   socialMediaHandle |-> Str(StringOrEmpty(answers.social_media_id)),
   address |-> OrUndefined(Str(StringOrEmpty(answers.address)))]

formatFormDataForSubmission(answers) ==
  [timestamp |-> Str(ToISOString(now)),
   name |-> Str(Trim(StringOrEmpty(answers.name))),
   contactMethods |-> OrEmptyArray(ContactProp(answers.contact_info, "methods")),
   email |-> OrUndefined(OptionalTrim(ContactProp(answers.contact_info, "email"))),
   phone |-> OrUndefined(OptionalTrim(ContactProp(answers.contact_info, "phone"))),
   socialPlatforms |-> OrEmptyArray(answers.platform),
   socialMediaHandle |-> Str(Trim(StringOrEmpty(answers.social_media_id))),
   address |-> OrUndefined(Str(Trim(StringOrEmpty(answers.address))))]

\* a form that sends whatever it holds
validateNothing(answers) == TRUE

\* a validator that checks the email and takes the phone on trust
validateFormDataForSubmissionEmailOnly(answers) ==
  LET methods == ContactProp(answers.contact_info, "methods")
      email == OptionalTrim(ContactProp(answers.contact_info, "email"))
  IN  IF Len(Trim(StringOrEmpty(answers.name))) = 0 THEN FALSE
      ELSE IF ~Truthy(methods) \/ Len(methods.v) = 0 THEN FALSE
      ELSE IF ArrayIncludes(methods, EmailTag)
              /\ (~Truthy(email) \/ ~isValidEmail(email.v)) THEN FALSE
      ELSE IF ~Truthy(answers.platform) \/ Len(answers.platform.v) = 0 THEN FALSE
      ELSE IF Len(Trim(StringOrEmpty(answers.social_media_id))) = 0 THEN FALSE
      ELSE TRUE

validateFormDataForSubmission(answers) ==
  LET methods == ContactProp(answers.contact_info, "methods")
      email == OptionalTrim(ContactProp(answers.contact_info, "email"))
      phone == OptionalTrim(ContactProp(answers.contact_info, "phone"))
  IN  IF Len(Trim(StringOrEmpty(answers.name))) = 0 THEN FALSE
      ELSE IF ~Truthy(methods) \/ Len(methods.v) = 0 THEN FALSE
      ELSE IF ArrayIncludes(methods, EmailTag)
              /\ (~Truthy(email) \/ ~isValidEmail(email.v)) THEN FALSE
      ELSE IF ArrayIncludes(methods, PhoneTag)
              /\ (~Truthy(phone) \/ ~isValidPhone(phone.v)) THEN FALSE
      ELSE IF ~Truthy(answers.platform) \/ Len(answers.platform.v) = 0 THEN FALSE
      ELSE IF Len(Trim(StringOrEmpty(answers.social_media_id))) = 0 THEN FALSE
      ELSE TRUE

-----------------------------------------------------------------------------
(* The form: hooks/useFormState and components/DynamicForm *)

\* sampleForm.questions; min and max of 0 stand for no rule
questions ==
  << [id |-> "name", type |-> "text", min |-> 0, max |-> 0],
     [id |-> "contact_info", type |-> "contact", min |-> 0, max |-> 0],
     [id |-> "platform", type |-> "checkbox", min |-> 1, max |-> 0],
     [id |-> "social_media_id", type |-> "text", min |-> 0, max |-> 0],
     [id |-> "address", type |-> "textarea", min |-> 0, max |-> 0],
     [id |-> "agreements", type |-> "checkbox", min |-> 3, max |-> 3] >>

QuestionIds == { questions[i].id : i \in 1..Len(questions) }

\* no question of sampleForm has conditional logic: all are visible
visibleQuestions == [i \in 1..Len(questions) |-> questions[i].id]

NoAnswers == [q \in QuestionIds |-> Undefined]

\* Object.keys(answers).length > 0
HasAnswers(answers) == \E q \in QuestionIds : answers[q] # Undefined

\* localStorage.getItem(STORAGE_KEY) of an absent entry
NoDraft == <<>>

\* the entry saveProgress writes
saveProgress(st) ==
  [currentQuestionIndex |-> st.currentQuestionIndex, answers |-> st.answers,
   timestamp |-> now]

\* the effect on [currentQuestionIndex, answers]: save once there is an answer
SaveEffect(st) == IF HasAnswers(st.answers) THEN saveProgress(st) ELSE localStorage

dayInMs == 86400000

\* the entry loadProgress leaves in storage
loadProgressStorage(stored) ==
  IF stored # NoDraft /\ now - stored.timestamp > dayInMs THEN NoDraft ELSE stored

\* useState's initial FormState, with mount effects run
InitialFormState(stored) ==
  LET saved == loadProgressStorage(stored)
  IN  [currentQuestionIndex |-> IF saved = NoDraft THEN 0 ELSE saved.currentQuestionIndex,
       answers |-> IF saved = NoDraft THEN NoAnswers ELSE saved.answers,
       visibleQuestions |-> visibleQuestions,
       isCompleted |-> FALSE,
       isSubmitting |-> FALSE]

\* a form that leaves the draft where it is
clearProgressSkipped == localStorage

\* storage after clearProgress
clearProgress == NoDraft

Letters == DOMAIN UpperToLower \cup { UpperToLower[c] : c \in DOMAIN UpperToLower }

\* /^[a-zA-Z0-9._%+-]+@[a-zA-Z0-9.-]+\.[a-zA-Z]{2,}$/
QuestionEmailOk(email) ==
  \E i \in 1..Len(email) : \E j \in 1..Len(email) :
     /\ email[i] = "@" /\ email[j] = "."
     /\ 1 < i /\ i + 1 < j /\ j + 2 <= Len(email)
     /\ \A k \in 1..(i - 1) :
           email[k] \in Letters \cup Digits \cup {".", "_", "%", "+", "-"}
     /\ \A k \in (i + 1)..(j - 1) : email[k] \in Letters \cup Digits \cup {".", "-"}
     /\ \A k \in (j + 1)..Len(email) : email[k] \in Letters

getCurrentQuestion ==
  IF Len(state.visibleQuestions) = 0
     \/ state.currentQuestionIndex + 1 \notin 1..Len(state.visibleQuestions)
  THEN Null
  ELSE CHOOSE q \in { questions[i] : i \in 1..Len(questions) } :
         q.id = state.visibleQuestions[state.currentQuestionIndex + 1]

ContactAnswered(answer) ==
  LET methods == Prop(answer, "methods")
      email == Prop(answer, "email")
      phone == Prop(answer, "phone")
  IN  IF ~Truthy(methods) \/ Len(methods.v) = 0 THEN FALSE
      ELSE IF ArrayIncludes(methods, EmailTag)
              /\ (~Truthy(email) \/ Len(Trim(email.v)) = 0
                  \/ ~QuestionEmailOk(Trim(email.v))) THEN FALSE
      ELSE IF ArrayIncludes(methods, PhoneTag)
              /\ (~Truthy(phone) \/ Len(Trim(phone.v)) = 0
                  \/ ~isValidPhone(phone.v)) THEN FALSE
      ELSE TRUE

\* every question of sampleForm is required
isCurrentQuestionAnswered ==
  LET currentQuestion == getCurrentQuestion
      answer == state.answers[currentQuestion.id]
  IN  IF currentQuestion = Null THEN FALSE
      ELSE IF currentQuestion.type = "contact"
      THEN IsObject(answer) /\ ContactAnswered(answer)
      ELSE IF IsArray(answer)
      THEN /\ ~(currentQuestion.min > 0 /\ Len(answer.v) < currentQuestion.min)
           /\ ~(currentQuestion.max > 0 /\ Len(answer.v) > currentQuestion.max)
           /\ Len(answer.v) > 0
      ELSE answer \notin {Undefined, Null, Str(<<>>)}

canGoNext == ~state.isCompleted /\ isCurrentQuestionAnswered

canGoPrev == state.currentQuestionIndex > 0

totalQuestions == Len(state.visibleQuestions)

ClientEntry(level, message, context) ==
  [level |-> level, message |-> message, context |-> context]

\* no submitForm was called yet
SubIdle == [started |-> 0, posts |-> <<>>, inFlight |-> {}, reading |-> {}, settled |-> <<>>]

\* handleAnswerChange: setAnswer for the question on screen, then the save effect
HandleAnswerChange(value) ==
  /\ ~showThankYou
  /\ getCurrentQuestion # Null
  /\ LET st == [state EXCEPT !.answers[getCurrentQuestion.id] = value]
     IN  /\ st # state
         /\ state' = st
         /\ localStorage' = SaveEffect(st)
  /\ UNCHANGED <<sub, clientLog, showThankYou, sheet, now, serviceVars, rateLimitedVars, libVars>>

\* nextQuestion, then the save effect
NextQuestionStep ==
  LET newIndex == state.currentQuestionIndex + 1
      st == [state EXCEPT !.currentQuestionIndex = newIndex,
                          !.isCompleted = newIndex >= Len(state.visibleQuestions)]
  IN  /\ state' = st
      /\ localStorage' = SaveEffect(st)
      /\ UNCHANGED <<sub, clientLog, showThankYou>>

\* a browser session starts one submission per click, up to this many
MaxSubmissions == 2

\* handleSubmit up to the fetch: submitForm validates and formats the answers it
\* captured and issues the POST; when validation fails it runs to its end and
\* handleSubmit shows the thank-you screen
HandleSubmit ==
  LET answers == state.answers
      formPayload == formatFormDataForSubmission(answers)
      n == Len(sub.posts) + 1
  IN  /\ sub.started < MaxSubmissions
      /\ IF ~validateFormDataForSubmission(answers)
         THEN /\ clientLog' = clientLog \o
                   << ClientEntry("error", "Form validation failed", [answers |-> answers]),
                      ClientEntry("info", "Form submission completed", <<>>) >>
              /\ state' = [state EXCEPT !.isSubmitting = FALSE, !.isCompleted = TRUE]
              /\ sub' = [sub EXCEPT !.started = sub.started + 1]
              /\ showThankYou' = TRUE
              /\ UNCHANGED localStorage
         ELSE /\ clientLog' = clientLog \o
                   << ClientEntry("info", "Starting form submission",
                                  [name |-> formPayload.name]) >>
              /\ state' = [state EXCEPT !.isSubmitting = TRUE]
              /\ sub' = [sub EXCEPT !.started = sub.started + 1,
                                    !.posts = Append(sub.posts,
                                                [answers |-> answers, body |-> formPayload]),
                                    !.inFlight = sub.inFlight \cup {n}]
              /\ UNCHANGED <<localStorage, showThankYou>>

\* handleNext: the Next or Submit button, or Enter in a question
HandleNext ==
  /\ ~showThankYou
  /\ IF state.currentQuestionIndex >= totalQuestions - 1
     THEN HandleSubmit
     ELSE canGoNext /\ NextQuestionStep
  /\ UNCHANGED <<sheet, now, serviceVars, rateLimitedVars, libVars>>

\* prevQuestion behind the Back button, then the save effect
PrevQuestion ==
  /\ ~showThankYou
  /\ canGoPrev
  /\ LET st == [state EXCEPT !.currentQuestionIndex = state.currentQuestionIndex - 1,
                             !.isCompleted = FALSE]
     IN  /\ state' = st
         /\ localStorage' = SaveEffect(st)
  /\ UNCHANGED <<sub, clientLog, showThankYou, sheet, now, serviceVars, rateLimitedVars, libVars>>

\* how the exchange with /api/submit-form can end: a 2xx answer with success true,
\* a 2xx answer with success false, another status, the 10 s abort, a rejected
\* fetch, a rejection with a value that is no Error, an answer that is not JSON
FetchOutcomes ==
  {"success", "reported_failure", "http_error", "abort", "network_error",
   "rejected_value", "bad_json"}

\* ends that the awaited fetch brings: a rejection, or an answer that is not ok
FetchEnds == {"http_error", "network_error", "rejected_value"}

\* ends that the awaited response.json() brings
BodyEnds == {"success", "reported_failure", "bad_json"}

FetchMessage(outcome) ==
  CASE outcome = "success" -> ClientEntry("info", "Form submitted successfully", <<>>)
    [] outcome = "abort" -> ClientEntry("error", "Form submission timeout", <<>>)
    [] outcome = "rejected_value" ->
         ClientEntry("error", "Form submission unknown error", <<>>)
    [] OTHER -> ClientEntry("error", "Form submission network error", <<>>)

\* the rest of submitForm once the exchange has ended, and of handleSubmit after it
FetchSettled(n, outcome) ==
  /\ \/ n \in sub.inFlight /\ outcome \in FetchEnds \cup {"abort"}
     \/ n \in sub.reading /\ outcome \in BodyEnds
  /\ clientLog' = clientLog \o
        << FetchMessage(outcome), ClientEntry("info", "Form submission completed", <<>>) >>
  /\ localStorage' = clearProgress
  /\ state' = [state EXCEPT !.isSubmitting = FALSE, !.isCompleted = TRUE]
  /\ sub' = [sub EXCEPT !.inFlight = sub.inFlight \ {n},
                        !.reading = sub.reading \ {n},
                        !.settled = Append(sub.settled, outcome)]
  /\ showThankYou' = TRUE
  /\ UNCHANGED <<sheet, now, serviceVars, rateLimitedVars, libVars>>

\* fetch resolved with an ok answer: the abort timer is cleared and submitForm
\* awaits response.json()
FetchResolved(n) ==
  /\ n \in sub.inFlight
  /\ sub' = [sub EXCEPT !.inFlight = sub.inFlight \ {n},
                        !.reading = sub.reading \cup {n}]
  /\ UNCHANGED <<state, localStorage, clientLog, showThankYou>>
  /\ UNCHANGED <<sheet, now, serviceVars, rateLimitedVars, libVars>>

\* the 10 s timer fires while the fetch is pending: controller.abort() rejects it
AbortTimerFires(n) == FetchSettled(n, "abort")

ContactEmail ==
  [methods |-> Arr(<<Str(EmailTag)>>), email |-> Str(EmailSample), phone |-> Undefined]

\* the "email" method ticked and no address typed
ContactEmailMissing ==
  [methods |-> Arr(<<Str(EmailTag)>>), email |-> Undefined, phone |-> Undefined]

ContactBoth ==
  [methods |-> Arr(<<Str(EmailTag), Str(PhoneTag)>>),
   email |-> Str(<<" ">> \o EmailSample), phone |-> Str(PhoneSample \o <<" ">>)]

AgreementsAll ==
  Arr(<< Str(<<"a","g","e","_","o","v","e","r","_","1","8">>),
         Str(<<"a","g","r","e","e","_","r","u","l","e","s">>),
         Str(<<"f","o","l","l","o","w","i","n","g","_","a","c","c","o","u","n","t","s">>) >>)

BlankName == Str(<<" ", " ">>)

\* what the user may enter for each question
AnswerSamples ==
  [name |-> {Str(NameSample), BlankName},
   contact_info |-> {ContactEmail, ContactEmailMissing, ContactBoth},
   platform |-> {Arr(<<Str(InstagramTag)>>), Arr(<<>>)},
   social_media_id |-> {Str(HandleSample)},
   address |-> {Str(AddressSample)},
   agreements |-> {AgreementsAll}]

CompleteAnswers ==
  [name |-> Str(NameSample), contact_info |-> ContactEmail,
   platform |-> Arr(<<Str(InstagramTag)>>), social_media_id |-> Str(HandleSample),
   address |-> Str(AddressSample), agreements |-> AgreementsAll]

\* what an earlier visit may have left in storage: nothing, or a draft on the last
\* question, with a name or with a name of blanks
StoredSamples ==
  { NoDraft,
    [currentQuestionIndex |-> Len(questions) - 1, answers |-> CompleteAnswers,
     timestamp |-> StartInstant],
    [currentQuestionIndex |-> Len(questions) - 1,
     answers |-> [CompleteAnswers EXCEPT !.name = BlankName],
     timestamp |-> StartInstant] }

AnswerChange ==
  \E q \in QuestionIds : \E value \in AnswerSamples[q] :
     /\ getCurrentQuestion # Null
     /\ getCurrentQuestion.id = q
     /\ HandleAnswerChange(value)

FetchSettles ==
  \E n \in sub.inFlight \cup sub.reading : \E outcome \in FetchEnds \cup BodyEnds :
     FetchSettled(n, outcome)

FetchResolves == \E n \in sub.inFlight : FetchResolved(n)

AbortTimer == \E n \in sub.inFlight : AbortTimerFires(n)

InitClient ==
  /\ log = <<>>
  /\ logLevel = "info"
  /\ idCounter = 0
  /\ app = AppIdle
  /\ req = ReqNone
  /\ sheet = <<>>
  /\ now = StartInstant
  /\ RateLimitedAtRest
  /\ \E stored \in StoredSamples :
        /\ state = InitialFormState(stored)
        /\ localStorage = loadProgressStorage(stored)
  /\ sub = SubIdle
  /\ clientLog = <<>>
  /\ showThankYou = FALSE
  /\ LibAtRest

NextClient ==
  \/ AnswerChange
  \/ HandleNext
  \/ PrevQuestion
  \/ FetchResolves
  \/ AbortTimer
  \/ FetchSettles

SpecClient == InitClient /\ [][NextClient]_vars

\* the browser runs every timer that is due: an armed abort timer fires unless it
\* is cleared first; nothing obliges the network to deliver anything
SpecClientFair ==
  SpecClient /\ \A n \in 1..MaxSubmissions : WF_vars(AbortTimerFires(n))

-----------------------------------------------------------------------------
(* The library functions called on their own, as the unit tests call them *)

LongName == Repeat("a", nameCap + 1)

\* a handle that reads like a missing value
NullText == <<"n","u","l","l">>

\* a contact question that hands on whatever was typed
ContactQuestionValueKept(methods, email, phone) ==
  [methods |-> Arr(methods), email |-> Str(email), phone |-> Str(phone)]

\* what ContactQuestion hands to onChange: the value of a method that is not
\* ticked is blanked
ContactQuestionValue(methods, email, phone) ==
  [methods |-> Arr(methods),
   email |-> IF \E i \in 1..Len(methods) : methods[i] = Str(EmailTag)
             THEN Str(email) ELSE Str(<<>>),
   phone |-> IF \E i \in 1..Len(methods) : methods[i] = Str(PhoneTag)
             THEN Str(phone) ELSE Str(<<>>)]

MethodsSamples ==
  { <<>>, <<Str(EmailTag)>>, <<Str(PhoneTag)>>, <<Str(EmailTag), Str(PhoneTag)>> }

TypedEmailSamples ==
  { <<>>, <<" ">>, EmailSample, <<" ">> \o EmailSample \o <<" ">>,
    <<"i","n","v","a","l","i","d","-","e","m","a","i","l">> }

TypedPhoneSamples == { <<>>, <<" ", " ">>, PhoneSample, <<"1","2","3">> }

\* contact answers as the question component produces them
ContactQuestionSamples ==
  { ContactQuestionValue(methods, email, phone) :
      methods \in MethodsSamples, email \in TypedEmailSamples, phone \in TypedPhoneSamples }

\* contact answers of the declared type {methods?, email?, phone?}
ContactInfoSamples ==
  [methods : {Undefined} \cup { Arr(m) : m \in MethodsSamples },
   email : {Undefined} \cup { Str(e) : e \in TypedEmailSamples },
   phone : {Undefined} \cup { Str(ph) : ph \in TypedPhoneSamples }]
    \cup {Undefined}

\* FormData the formatter may be given
LibAnswers ==
  [name : {Undefined, Str(NameSample), BlankName, Str(<<" ">> \o NameSample \o <<" ">>),
           Str(LongName)},
   contact_info : ContactInfoSamples \cup ContactQuestionSamples,
   platform : {Undefined, Arr(<<>>), Arr(<<Str(InstagramTag), Str(TiktokTag)>>)},
   social_media_id : {Undefined, Str(<<" ">> \o HandleSample), Str(NullText)},
   address : {Undefined, Str(<<" ">>), Str(AddressSample)},
   agreements : {AgreementsAll}]

\* status codes an error message may quote
StatusCodeSamples ==
  { <<"5","0","0">>, <<"5","0","1">>, <<"5","0","2">>, <<"5","0","3">>, <<"5","0","4">>, <<"4","2","9">>, <<"4","0","0">>, <<"4","0","3">>, <<"2","0","0">> }

\* messages of the errors classifyError may be given: each keyword of the table on
\* its own, a status code in a sentence, upper case, and nothing it knows
ClassifyMessageSamples ==
  UNION { AuthenticationKeywords, NetworkKeywords, RateLimitKeywords, ValidationKeywords,
          PermissionKeywords, QuotaKeywords,
          { <<"i","n","t","e","r","n","a","l"," ","s","e","r","v","e","r"," ","e","r","r","o","r">>, <<"s","e","r","v","i","c","e"," ","u","n","a","v","a","i","l","a","b","l","e">> } }
    \cup { <<"H","T","T","P"," ">> \o code \o <<" ","e","r","r","o","r">> :
             code \in StatusCodeSamples }
    \cup { <<"N","E","T","W","O","R","K"," ","T","I","M","E","O","U","T">>, <<"S","e","r","v","i","c","e"," ","U","n","a","v","a","i","l","a","b","l","e">>, <<"P","e","r","s","i","s","t","e","n","t"," ","e","r","r","o","r">>, <<"s","o","m","e"," ","r","a","n","d","o","m"," ","e","r","r","o","r">>, <<>> }

ClassifyNameSamples == { <<"E","r","r","o","r">>, <<"A","u","t","h","E","r","r","o","r">>, <<"N","e","t","w","o","r","k","E","r","r","o","r">>, <<"T","y","p","e","E","r","r","o","r">> }

\* messages that hold keywords of two categories, in either order, and the two
\* messages about quotas the error handler's tests use
MixedMessageSamples ==
  { k1 \o <<" ">> \o k2 :
      k1, k2 \in UNION { AuthenticationKeywords, NetworkKeywords, RateLimitKeywords,
                         ValidationKeywords, PermissionKeywords, QuotaKeywords,
                         ServerKeywords } }
    \cup { <<"Q","u","o","t","a"," ","e","x","c","e","e","d","e","d">>,
           <<"U","s","a","g","e"," ","l","i","m","i","t"," ","e","x","c","e","e","d","e","d">> }

ClassifySamples ==
  [name : ClassifyNameSamples, message : ClassifyMessageSamples]
    \cup [name : { <<"E","r","r","o","r">> }, message : MixedMessageSamples]

\* validate(answers), for the answers the call was set up with
CallValidate ==
  /\ call.fn = "" /\ call.answers # Undefined
  /\ call' = [call EXCEPT !.fn = "validateFormDataForSubmission",
                          !.arg = call.answers,
                          !.result = validateFormDataForSubmission(call.answers)]
  /\ UNCHANGED <<serviceVars, sheet, now, rateLimitedVars, clientVars>>

\* format(answers), whether or not validate was called before
CallFormat ==
  /\ call.fn \in {"", "validateFormDataForSubmission"} /\ call.answers # Undefined
  /\ call' = [call EXCEPT !.fn = "formatFormDataForSubmission",
                          !.arg = call.answers,
                          !.result = formatFormDataForSubmission(call.answers)]
  /\ UNCHANGED <<serviceVars, sheet, now, rateLimitedVars, clientVars>>

\* toRow applied to what format returned
CallConvert ==
  /\ call.fn = "formatFormDataForSubmission"
  /\ call' = [call EXCEPT !.fn = "convertToSpreadsheetRow",
                          !.arg = call.result,
                          !.result = convertToSpreadsheetRow(call.result)]
  /\ UNCHANGED <<serviceVars, sheet, now, rateLimitedVars, clientVars>>

\* classifyError(error), for the error the call was set up with
CallClassify ==
  /\ call.fn = "" /\ call.answers = Undefined
  /\ call' = [call EXCEPT !.fn = "classifyError", !.result = classifyError(call.arg)]
  /\ UNCHANGED <<serviceVars, sheet, now, rateLimitedVars, clientVars>>

InitLib ==
  /\ log = <<>>
  /\ logLevel = "info"
  /\ idCounter = 0
  /\ app = AppIdle
  /\ req = ReqNone
  /\ sheet = <<>>
  /\ now = StartInstant
  /\ RateLimitedAtRest
  /\ ClientAtRest
  /\ \/ \E answers \in LibAnswers : call = [NoCall EXCEPT !.answers = answers]
     \/ \E error \in ClassifySamples : call = [NoCall EXCEPT !.arg = error]

NextLib == CallValidate \/ CallFormat \/ CallConvert \/ CallClassify

SpecLib == InitLib /\ [][NextLib]_vars

-----------------------------------------------------------------------------
(* The hook useFormState called on its own, with configurations of its type *)

\* the questions of a form as far as visibility reads them
sampleFormConfig ==
  [i \in 1..Len(questions) |-> [id |-> questions[i].id, conditionalLogic |-> <<>>]]

\* a form whose last question is shown while the contact methods hold "phone"
conditionalFormConfig ==
  << [id |-> "name", conditionalLogic |-> <<>>],
     [id |-> "contact_info", conditionalLogic |-> <<>>],
     [id |-> "address",
      conditionalLogic |-> << [dependsOn |-> "contact_info", operator |-> "contains",
                               value |-> PhoneTag] >>] >>

\* a form whose only question is shown while the name is empty
allConditionalFormConfig ==
  << [id |-> "address",
      conditionalLogic |-> << [dependsOn |-> "name", operator |-> "is_empty",
                               value |-> <<>>] >>] >>

ConfigSamples == {sampleFormConfig, conditionalFormConfig, allConditionalFormConfig}

\* evaluateCondition for the operators of the sampled configurations: contains,
\* is_empty and is_not_empty, on a contact answer and on any other answer
evaluateCondition(condition, answers) ==
  LET dependentValue == answers[condition.dependsOn]
  IN  IF Truthy(dependentValue) /\ IsObject(dependentValue)
         /\ "methods" \in DOMAIN dependentValue
      THEN CASE condition.operator = "contains" ->
                  ArrayIncludes(dependentValue.methods, condition.value)
             [] condition.operator = "is_empty" -> Len(dependentValue.methods.v) = 0
             [] condition.operator = "is_not_empty" -> Len(dependentValue.methods.v) > 0
             [] OTHER -> TRUE
      ELSE CASE condition.operator = "is_empty" -> ~Truthy(dependentValue)
             [] condition.operator = "is_not_empty" -> Truthy(dependentValue)
             [] condition.operator = "contains" ->
                  /\ IsString(dependentValue)
                  /\ Includes(dependentValue.v, condition.value)
             [] OTHER -> TRUE

isQuestionVisible(question, answers) ==
  \A c \in 1..Len(question.conditionalLogic) :
     evaluateCondition(question.conditionalLogic[c], answers)

\* the useMemo: ids of the visible questions, in the order of the configuration
RECURSIVE VisibleIds(_, _)
VisibleIds(config, answers) ==
  IF config = <<>> THEN <<>>
  ELSE (IF isQuestionVisible(Head(config), answers) THEN << Head(config).id >> ELSE <<>>)
       \o VisibleIds(Tail(config), answers)

MinOf(a, b) == IF a <= b THEN a ELSE b
MaxOf(a, b) == IF a >= b THEN a ELSE b

\* an effect that takes the new list and leaves the index where it is
VisibilityEffectUnclamped(st, config) ==
  [st EXCEPT !.visibleQuestions = VisibleIds(config, st.answers)]

\* the effect on [visibleQuestions]: when the list changed, take it and pull the
\* index back to its last place
VisibilityEffect(st, config) ==
  LET visible == VisibleIds(config, st.answers)
  IN  IF visible # st.visibleQuestions
      THEN [st EXCEPT !.visibleQuestions = visible,
                      !.currentQuestionIndex =
                         MinOf(st.currentQuestionIndex, Len(visible) - 1)]
      ELSE st

setAnswer(st, questionId, value) == [st EXCEPT !.answers[questionId] = value]

nextQuestion(st) ==
  LET newIndex == st.currentQuestionIndex + 1
  IN  [st EXCEPT !.currentQuestionIndex = newIndex,
                 !.isCompleted = newIndex >= Len(st.visibleQuestions)]

prevQuestion(st) ==
  [st EXCEPT !.currentQuestionIndex = MaxOf(0, st.currentQuestionIndex - 1),
             !.isCompleted = FALSE]

goToQuestion(st, index) ==
  [st EXCEPT !.currentQuestionIndex =
               MaxOf(0, MinOf(index, Len(st.visibleQuestions) - 1)),
             !.isCompleted = FALSE]

\* the index one run lets nextQuestion reach
MaxQuestionIndex == 8

\* a state update of the hook, then its effects: visibility, then the save
HookUpdate(st) ==
  LET shown == VisibilityEffect(st, call.arg)
  IN  /\ state' = shown
      /\ localStorage' = SaveEffect(shown)
      /\ UNCHANGED <<sub, clientLog, showThankYou, sheet, now, serviceVars,
                     rateLimitedVars, libVars>>

HookSetAnswer ==
  \E q \in QuestionIds : \E value \in AnswerSamples[q] :
     /\ state.answers[q] # value
     /\ HookUpdate(setAnswer(state, q, value))

HookNextQuestion ==
  /\ state.currentQuestionIndex < MaxQuestionIndex
  /\ HookUpdate(nextQuestion(state))

HookPrevQuestion ==
  /\ prevQuestion(state) # state
  /\ HookUpdate(prevQuestion(state))

HookGoToQuestion ==
  \E index \in (0 - 1)..MaxQuestionIndex :
     /\ goToQuestion(state, index) # state
     /\ HookUpdate(goToQuestion(state, index))

\* useState's initial FormState for a draft, before any effect
FormStateOf(stored) ==
  LET saved == loadProgressStorage(stored)
  IN  [currentQuestionIndex |-> IF saved = NoDraft THEN 0 ELSE saved.currentQuestionIndex,
       answers |-> IF saved = NoDraft THEN NoAnswers ELSE saved.answers,
       visibleQuestions |-> <<>>,
       isCompleted |-> FALSE,
       isSubmitting |-> FALSE]

\* the hook mounted with a configuration and a draft, its mount effects run
InitHook ==
  /\ log = <<>>
  /\ logLevel = "info"
  /\ idCounter = 0
  /\ app = AppIdle
  /\ req = ReqNone
  /\ sheet = <<>>
  /\ now = StartInstant
  /\ RateLimitedAtRest
  /\ sub = SubIdle
  /\ clientLog = <<>>
  /\ showThankYou = FALSE
  /\ \E config \in ConfigSamples : \E stored \in StoredSamples :
        /\ call = [NoCall EXCEPT !.fn = "useFormState", !.arg = config]
        /\ state = VisibilityEffect(FormStateOf(stored), config)
        /\ localStorage = IF HasAnswers(state.answers) THEN saveProgress(state)
                          ELSE loadProgressStorage(stored)

NextHook == HookSetAnswer \/ HookNextQuestion \/ HookPrevQuestion \/ HookGoToQuestion

SpecHook == InitHook /\ [][NextHook]_vars

-----------------------------------------------------------------------------
(* Properties of the service-based handler and of the append client *)

NonBlankString(x) == IsString(x) /\ Len(Trim(x.v)) > 0

NonEmptyArray(x) == IsArray(x) /\ Len(x.v) > 0

HasTag(x, tag) == \E i \in 1..Len(x.v) : x.v[i] = Str(tag)

\* the shape the handler asks of a body: required strings and lists, and optional
\* fields well-formed when they are there at all
StructurallyValid(body) ==
  /\ IsObject(body)
  /\ NonBlankString(Prop(body, "name"))
  /\ NonBlankString(Prop(body, "socialMediaHandle"))
  /\ NonEmptyArray(Prop(body, "contactMethods"))
  /\ NonEmptyArray(Prop(body, "socialPlatforms"))
  /\ (Truthy(Prop(body, "email")) =>
        IsString(body.email) /\ isValidEmail(Trim(body.email.v)))
  /\ (Truthy(Prop(body, "phone")) => NonBlankString(body.phone))
  /\ (Truthy(Prop(body, "address")) => NonBlankString(body.address))

\* the required-field and method-to-value checks: a tag in contactMethods needs its
\* value, well-formed
PassesEveryCheck(body) ==
  /\ StructurallyValid(body)
  /\ (HasTag(body.contactMethods, EmailTag) =>
        NonBlankString(Prop(body, "email")) /\ isValidEmail(Trim(body.email.v)))
  /\ (HasTag(body.contactMethods, PhoneTag) =>
        NonBlankString(Prop(body, "phone")) /\ isValidPhone(Trim(body.phone.v)))

\* the append client is working, or has worked, for the request at hand
AppendReached == app.calls > 0 /\ app.submissionId = req.submissionId + 1

\* C1 as stated: the remote append is called only for a body that passes every
\* required-field and method-to-value check (an "email" or "phone" tag has its value,
\* well-formed).  The handler appends bodies whose tag has no value.
C1_AppendOnlyAfterEveryCheck == AppendReached => PassesEveryCheck(req.body)

\* C1, amended: the remote append is called only for a POST whose body passes the
\* handler's structural validation.
C1_AppendOnlyAfterStructuralValidation ==
  AppendReached => req.method = "POST" /\ StructurallyValid(req.body)

\* an append call made for a body with the "email" tag and no email
C1_Witness ==
  /\ AppendReached
  /\ HasTag(req.body.contactMethods, EmailTag)
  /\ ~Truthy(req.body.email)

Responded == req.pc = "responded"

\* C2: every POST whose body passes structural validation is answered
\* 200 {success: true, message: "Form submitted successfully"}, whatever happened
\* after validation.
C2_ValidPostAnswered200 ==
  (Responded /\ req.method = "POST" /\ StructurallyValid(req.body)) =>
     /\ req.status = 200
     /\ req.response = [success |-> TRUE, message |-> "Form submitted successfully"]

\* a valid POST answered after the append client gave up on its third attempt
C2_Witness ==
  /\ Responded /\ req.method = "POST" /\ StructurallyValid(req.body)
  /\ AppendReached /\ app.pc = "thrown" /\ app.calls = maxRetries
  /\ req.status = 200

RetryableCategories == {"network", "rate_limit", "server", "quota"}

\* positions in the log of the per-attempt failure entries of the current append call
FailureEntries ==
  { i \in 1..Len(log) :
      /\ log[i].submissionId = app.submissionId
      /\ log[i].operation = "append_form_data"
      /\ "category" \in DOMAIN log[i].context }

FailureCategories == { log[i].context.category : i \in FailureEntries }

\* positions of the manual-recovery entries the current append call produced
RecoveryEntries ==
  { i \in 1..Len(log) :
      /\ log[i].submissionId = app.submissionId
      /\ log[i].message = "Manual data recovery required"
      /\ log[i].context.operation = "append_form_data" }

AllAttemptsFailed ==
  app.calls > 0 /\ app.pc # "returned" /\ Cardinality(FailureEntries) = app.calls

\* C4: when every failed attempt is classified retryable, appendFormData throws after
\* exactly 3 remote calls, no sooner and no later, and the call leaves exactly one
\* manual-recovery entry.
C4_RetryableFailuresExhaustThreeCalls ==
  (AllAttemptsFailed /\ FailureCategories \subseteq RetryableCategories) =>
     /\ app.calls <= 3
     /\ (app.pc = "thrown" <=> app.calls = 3)
     /\ (app.pc = "thrown" => Cardinality(RecoveryEntries) = 1)

\* three failures of three different retryable categories, then the throw
C4_Witness ==
  /\ app.pc = "thrown" /\ app.calls = 3
  /\ FailureCategories \subseteq RetryableCategories
  /\ Cardinality(FailureCategories) = 3
  /\ Cardinality(RecoveryEntries) = 1

\* category of the failure that ended the call
LastFailureCategory ==
  log[CHOOSE i \in FailureEntries : \A j \in FailureEntries : j <= i].context.category

C6_RecoveryRecordHoldsPayload ==
  \A i \in RecoveryEntries :
     \A f \in PayloadFields :
        Prop(log[i].context.recoveryData, f) = Prop(app.data, f)

\* the payload of the request as the handler holds it when it fails
HeldPayload == IF req.sanitizedData = Undefined THEN req.body ELSE req.sanitizedData

RowLost == Responded /\ req.status = 200 /\ ~(AppendReached /\ app.pc = "returned")

\* C7: when a valid submission is answered 200 and its row was not appended, some log
\* entry of that request carries the submission id, an operation name and every
\* field of the payload.
C7_LostRowIsLoggedInFull ==
  RowLost =>
     \E i \in 1..Len(log) :
        /\ log[i].submissionId = req.submissionId
        /\ log[i].operation # ""
        /\ "fullFormData" \in DOMAIN log[i].context
        /\ \A f \in PayloadFields :
              Prop(log[i].context.fullFormData, f) = Prop(HeldPayload, f)

\* a request with an address, answered 200 after service initialisation failed
C7_Witness ==
  /\ RowLost
  /\ ~AppendReached
  /\ req.sanitizedData # Undefined
  /\ Truthy(req.sanitizedData.address)

-----------------------------------------------------------------------------
(* Properties of the rate-limited handler *)

\* the shape the rate-limited handler asks of a body: the shape above, and a token
StructurallyValidRL(body) ==
  StructurallyValid(body) /\ NonBlankString(Prop(body, "turnstileToken"))

\* C3: the rate-limited handler answers without success only with 405 to a method
\* that is not POST, 429 when the limiter trips, and 400 to a structurally invalid
\* body; no failure of the verification call or missing secret shows in the answer.
C3_OnlyMethodLimitAndShapeRejected ==
  \A k \in 1..MaxRLRequests :
     (rlReq[k].pc = "responded" /\ rlReq[k].status # 200) =>
        \/ rlReq[k].status = 405 /\ rlReq[k].method # "POST"
        \/ rlReq[k].status = 429
        \/ rlReq[k].status = 400 /\ ~StructurallyValidRL(rlReq[k].body)

-----------------------------------------------------------------------------
(* Properties of the form *)

\* C8: once a POST of submitForm has ended, however it ended, the draft under
\* 'naf_form_progress' is gone and the flow is complete: isCompleted is true and
\* isSubmitting is false.
C8_DraftClearedAfterPost ==
  Len(sub.settled) > 0 =>
     /\ localStorage = <<>>
     /\ state.isCompleted
     /\ ~state.isSubmitting

\* a POST that ended with an HTTP error, after a draft had been saved for its answers
C8_Witness ==
  /\ Len(sub.settled) = 1
  /\ sub.settled[1] = "http_error"
  /\ HasAnswers(sub.posts[1].answers)
  /\ localStorage = <<>>
  /\ state.isCompleted

\* C9: whatever branch submitForm took, local validation failure included, the
\* thank-you screen comes with isCompleted true, isSubmitting false and no draft
\* left in storage.
C9_SameOutcomeInEveryBranch ==
  showThankYou =>
     /\ state.isCompleted
     /\ ~state.isSubmitting
     /\ localStorage = <<>>

\* the checks of the answers a POST may be made for
AnswersPassChecks(answers) ==
  LET contact == answers.contact_info
  IN  /\ NonBlankString(answers.name)
      /\ NonBlankString(answers.social_media_id)
      /\ NonEmptyArray(answers.platform)
      /\ IsObject(contact)
      /\ NonEmptyArray(contact.methods)
      /\ (HasTag(contact.methods, EmailTag) =>
            NonBlankString(contact.email) /\ isValidEmail(Trim(contact.email.v)))
      /\ (HasTag(contact.methods, PhoneTag) =>
            NonBlankString(contact.phone) /\ isValidPhone(Trim(contact.phone.v)))

ValidationFailures ==
  { i \in 1..Len(clientLog) : clientLog[i].message = "Form validation failed" }

\* C10: every POST was issued for answers that pass validation, and a submitForm
\* whose validation failed issued none: the POSTs and the validation failures
\* together are the calls of submitForm.
C10_PostOnlyAfterValidation ==
  /\ \A i \in 1..Len(sub.posts) : AnswersPassChecks(sub.posts[i].answers)
  /\ \A i \in ValidationFailures : ~AnswersPassChecks(clientLog[i].context.answers)
  /\ Len(sub.posts) + Cardinality(ValidationFailures) = sub.started

\* one submitForm turned down by validation and, in the same session, one POST issued
C10_Witness ==
  /\ Len(sub.posts) = 1
  /\ Cardinality(ValidationFailures) = 1

-----------------------------------------------------------------------------
(* Properties of the retry loop of the append client *)

\* category of the failure of attempt k of the current append call
FailureCategoryOf(k) ==
  log[CHOOSE i \in FailureEntries : log[i].context.attemptNumber = k].context.category

FailedAttempts == { log[i].context.attemptNumber : i \in FailureEntries }

\* C11: the wait after a retryable failure of attempt k (k = 1, 2) is
\* base * 2^(k-1) milliseconds, base 5000 for rate_limit and 1000 otherwise, and
\* there is one wait for each such failure; two network failures and a success
\* give the waits 1000, 2000 and a return without a throw.
C11_BackoffDoublesFromCategoryBase ==
  /\ \A k \in 1..Len(app.waits) :
        /\ k \in FailedAttempts /\ k <= 2
        /\ FailureCategoryOf(k) \in RetryableCategories
        /\ app.waits[k] =
             (IF FailureCategoryOf(k) = "rate_limit" THEN 5000 ELSE 1000)
               * (IF k = 1 THEN 1 ELSE 2)
  /\ \A k \in FailedAttempts :
        (k <= 2 /\ FailureCategoryOf(k) \in RetryableCategories) => k <= Len(app.waits)
  /\ (app.pc = "returned" /\ app.calls = 3 /\ FailureCategories = {"network"}) =>
        app.waits = <<1000, 2000>> /\ app.thrown = NoError

\* a network failure, then a rate-limit failure, then a success on the third call
C11_Witness ==
  /\ app.pc = "returned" /\ app.calls = 3
  /\ FailureCategoryOf(1) = "network" /\ FailureCategoryOf(2) = "rate_limit"
  /\ app.waits = <<1000, 10000>>

\* C12: once a remote append call has succeeded, appendFormData has returned
\* without throwing; the successful call was the last one (every other call is a
\* failure that came before it, each followed by its wait), its row is the last of
\* the sheet, no manual-recovery entry exists and the success entry is the last
\* thing logged.
C12_SuccessEndsTheCall ==
  app.pc = "returned" =>
     /\ app.thrown = NoError
     /\ app.calls \in 1..3
     /\ FailedAttempts = 1..(app.calls - 1)
     /\ Len(app.waits) = app.calls - 1
     /\ RecoveryEntries = {}
     /\ Len(sheet) >= 1 /\ sheet[Len(sheet)] = convertToSpreadsheetRow(app.data)
     /\ log[Len(log)] = logSuccess("append_form_data", app.submissionId,
                                   [attempt |-> app.calls])

\* a success on the second call, after one failure and one wait
C12_Witness ==
  /\ app.pc = "returned" /\ app.calls = 2
  /\ Len(app.waits) = 1 /\ Len(sheet) = 1

AppendRunning == app.pc \in {"attempt", "waiting"}

AppendEnded == app.pc \in {"returned", "thrown"}

C14_FailedExactlyWhenNot2xx ==
  /\ \A k \in 1..Len(app.answers) :
        k \in FailedAttempts <=>
          ~(app.answers[k].kind = "resolved" /\ app.answers[k].status \in 200..299)
  /\ (\E k \in 1..Len(app.answers) :
         app.answers[k].kind = "resolved" /\ app.answers[k].status \in 200..299)
       => app.pc = "returned"

\* C14, amended: an attempt counts as failed exactly when its remote call was
\* rejected or answered with a status other than 200 (201 and 202 included), and
\* an answer of 200 ends the call with a return.
C14_FailedExactlyWhenNot200 ==
  /\ \A k \in 1..Len(app.answers) :
        k \in FailedAttempts <=>
          ~(app.answers[k].kind = "resolved" /\ app.answers[k].status = 200)
  /\ (\E k \in 1..Len(app.answers) :
         app.answers[k].kind = "resolved" /\ app.answers[k].status = 200)
       => app.pc = "returned"

\* a first call answered 201: counted as failed, and the call thrown
C14_Witness ==
  /\ app.pc = "thrown" /\ app.calls = 1
  /\ app.answers = << [kind |-> "resolved", status |-> 201] >>
  /\ 1 \in FailedAttempts

-----------------------------------------------------------------------------
(* Properties of the rate limiter *)

\* the admissions of one address in the 60 seconds that end at decision j, itself
\* left out
AdmittedBefore(ip, j) ==
  { i \in 1..(j - 1) :
      /\ decisions[ip][i].admitted
      /\ decisions[ip][j].at - decisions[ip][i].at <= 60000 }

Refusals(ip) == { j \in 1..Len(decisions[ip]) : ~decisions[ip][j].admitted }

TooManyAnswers == { k \in 1..MaxRLRequests : rlReq[k].status = 429 }

\* C15: for each address, however the requests in hand interleave, a request is
\* admitted only when fewer than 3 were admitted in the 60 seconds before it, so
\* no 60-second interval holds more than 3 admissions; a request that comes when
\* 3 were admitted in that interval is refused, and every refused request is
\* answered 429 at once, with nothing validated, sanitised, verified or appended.
C15_AtMostThreeAdmittedPerWindow ==
  /\ \A ip \in DOMAIN decisions : \A j \in 1..Len(decisions[ip]) :
        /\ decisions[ip][j].admitted => Cardinality(AdmittedBefore(ip, j)) < 3
        /\ Cardinality(AdmittedBefore(ip, j)) >= 3 => ~decisions[ip][j].admitted
  /\ \A k \in TooManyAnswers :
        /\ rlReq[k].pc = "responded" /\ rlReq[k].method = "POST"
        /\ rlReq[k].response = TooManyResponse
        /\ rlReq[k].sanitizedData = Undefined
        /\ rlReq[k].ip \in DOMAIN decisions /\ Refusals(rlReq[k].ip) # {}
  /\ LET refused == { <<ip, j>> \in (DOMAIN decisions)
                             \X (1..(MaxRLRequests + MAX_SUBMISSIONS_PER_WINDOW)) :
                         j \in Refusals(ip) }
     IN  Cardinality(refused) = Cardinality(TooManyAnswers)

\* a fourth request of one address within the window answered 429 while an
\* admitted request of the same run is still with the verification service
C15_Witness ==
  /\ \E k \in TooManyAnswers :
        \E j \in Refusals(rlReq[k].ip) : Cardinality(AdmittedBefore(rlReq[k].ip, j)) = 3
  /\ \E k \in 1..MaxRLRequests : rlReq[k].pc = "verifying"

\* the instant the window that decision j falls in, or follows, was opened: the
\* latest earlier admission that set the count to 1
WindowStart(ip, j) ==
  LET opened == { i \in 1..(j - 1) :
                    decisions[ip][i].admitted /\ decisions[ip][i].count = 1 }
  IN  decisions[ip][CHOOSE i \in opened : \A h \in opened : h <= i].at

\* C16: a request that arrives more than 60 seconds after the start of its
\* address's window is admitted and opens a new window with count 1.
C16_WindowResetsSixtySecondsAfterItsStart ==
  \A ip \in DOMAIN decisions : \A j \in 2..Len(decisions[ip]) :
     decisions[ip][j].at - WindowStart(ip, j) > 60000 =>
        decisions[ip][j].admitted /\ decisions[ip][j].count = 1

-----------------------------------------------------------------------------
(* Properties of the service-based handler: pre-check, sanitising, rejection *)

\* the handler has logged, for the request at hand, that the pre-check failed
ConnectionCheckFailed ==
  \E i \in 1..Len(log) :
     /\ log[i].message = "Google Sheets connection validation failed"
     /\ log[i].submissionId = req.submissionId
     /\ req.submissionId # NoId

\* C17: a pre-check that failed, by an answer that is not valid or by an error of
\* the call, is logged and no more: appendFormData is called with the sanitised
\* payload, the remote append is tried, and the answer is 200 success.
C17_FailedPreCheckDoesNotGate ==
  ConnectionCheckFailed =>
     /\ req.pc \in {"appending", "responded"}
     /\ app.pc # "idle"
     /\ app.submissionId = req.submissionId + 1
     /\ app.data = req.sanitizedData
     /\ (Responded => /\ app.calls >= 1
                       /\ req.status = 200
                       /\ req.response = SuccessResponse)

\* the pre-check call raised an error, and the row was appended all the same
C17_Witness ==
  /\ ConnectionCheckFailed
  /\ \E i \in 1..Len(log) : log[i].message = "Connection validation error details"
  /\ Responded /\ app.pc = "returned"
  /\ sheet = << convertToSpreadsheetRow(req.sanitizedData) >>

\* log entries left by calls that leave the process
ExternalOperations ==
  {"service_creation", "client_initialization", "authentication",
   "connection_validation", "append_data", "google_sheets", "append_form_data"}

\* entry i was logged while a request was handled past its sanitising
AfterSanitising(i) ==
  \E j \in 1..(i - 1) :
     /\ log[j].message = "Processing form submission"
     /\ \A h \in j..i : log[h].message # "API request received"

\* instants at which the limiter admitted a request of address ip
AdmittedInstants(ip) ==
  IF ip \in DOMAIN decisions
  THEN { decisions[ip][j].at : j \in { h \in 1..Len(decisions[ip]) :
                                          decisions[ip][h].admitted } }
  ELSE {}

\* C18: in either handler no call leaves the process (service initialisation,
\* connection check, verification, spreadsheet append) before the body passed
\* validation and was sanitised, and what is handed to the append, and written to
\* the sheet, is the sanitised copy stamped with the server's clock, not the
\* request body nor the timestamp the client sent.
C18_SanitisedBeforeAnyExternalCall ==
  /\ req.pc \in {"connection_check", "appending"} =>
        /\ req.method = "POST" /\ StructurallyValid(req.body)
        /\ req.sanitizedData # Undefined
  /\ \A i \in 1..Len(log) :
        log[i].operation \in ExternalOperations => AfterSanitising(i)
  /\ app.pc # "idle" =>
        /\ app.data = req.sanitizedData
        /\ app.data.timestamp = Str(ToISOString(now))
        /\ app.data.timestamp # Prop(req.body, "timestamp")
        /\ \A r \in 1..Len(sheet) : sheet[r] = convertToSpreadsheetRow(req.sanitizedData)
  /\ \A k \in DOMAIN rlReq :
        (rlReq[k].pc \in {"verifying", "appending"} \/ rlReq[k].sanitizedData # Undefined) =>
           /\ rlReq[k].method = "POST" /\ StructurallyValidRL(rlReq[k].body)
           /\ rlReq[k].sanitizedData # Undefined
           /\ rlReq[k].sanitizedData.timestamp # Prop(rlReq[k].body, "timestamp")
           /\ \E t \in AdmittedInstants(rlReq[k].ip) :
                 rlReq[k].sanitizedData.timestamp = Str(ToISOString(t))
  /\ ~ServiceUntouched \/ ~RateLimitedUntouched \/ sheet = <<>>
  /\ (ServiceUntouched /\ DOMAIN rlReq # {}) =>
        \A r \in 1..Len(sheet) :
           \E k \in DOMAIN rlReq :
              /\ rlReq[k].sanitizedData # Undefined
              /\ sheet[r] = appendToGoogleSheetsRow(rlReq[k].sanitizedData)

\* a body with padded fields and the client's own timestamp, whose row went to the
\* sheet trimmed and stamped by the server
C18_Witness ==
  /\ app.pc = "returned" /\ Len(sheet) = 1
  /\ req.body.name = Str(PaddedLongName)
  /\ req.body.timestamp = ClientTimestamp
  /\ sheet[1].timestamp = ToLocaleString(ToISOString(now))
  /\ sheet[1].name = Repeat("a", nameCap)

Trimmed(x) == Trim(x.v) = x.v

\* a string field, when there, is trimmed and within its cap
TrimmedWithin(x, cap) ==
  x.t \in {"undefined", "null"} \/ (IsString(x) /\ Trimmed(x) /\ Len(x.v) <= cap)

\* C19: every string field of a sanitised payload is free of leading and trailing
\* whitespace and no longer than its cap: name 100, contact method 50, email 100,
\* phone 20, platform 50, handle 100, address 500.
C19_SanitisedFieldsTrimmedAndCapped ==
  req.sanitizedData # Undefined =>
     LET d == req.sanitizedData
     IN  /\ IsString(d.name) /\ TrimmedWithin(d.name, 100)
         /\ IsString(d.socialMediaHandle) /\ TrimmedWithin(d.socialMediaHandle, 100)
         /\ TrimmedWithin(d.email, 100)
         /\ TrimmedWithin(d.phone, 20)
         /\ TrimmedWithin(d.address, 500)
         /\ \A i \in 1..Len(d.contactMethods.v) :
               IsString(d.contactMethods.v[i]) /\ TrimmedWithin(d.contactMethods.v[i], 50)
         /\ \A i \in 1..Len(d.socialPlatforms.v) :
               IsString(d.socialPlatforms.v[i]) /\ TrimmedWithin(d.socialPlatforms.v[i], 50)

ArrayOfStrings(x) == IsArray(x) /\ \A i \in 1..Len(x.v) : IsString(x.v[i])

Present(x) == x.t \notin {"undefined", "null"}

\* a body that is not a submission: no object, a required field missing, blank or
\* of the wrong type, a list that is empty or holds something other than strings,
\* or an optional field that is there and is not a well-formed string
StructurallyInvalid(body) ==
  \/ ~IsObject(body)
  \/ ~NonBlankString(Prop(body, "name"))
  \/ ~NonBlankString(Prop(body, "socialMediaHandle"))
  \/ ~(NonEmptyArray(Prop(body, "contactMethods")) /\ ArrayOfStrings(body.contactMethods))
  \/ ~(NonEmptyArray(Prop(body, "socialPlatforms")) /\ ArrayOfStrings(body.socialPlatforms))
  \/ (Present(Prop(body, "email"))
        /\ ~(IsString(body.email) /\ isValidEmail(Trim(body.email.v))))
  \/ (Present(Prop(body, "phone")) /\ ~NonBlankString(body.phone))
  \/ (Present(Prop(body, "address")) /\ ~NonBlankString(body.address))

\* C20: a POST whose body is structurally invalid is answered
\* 400 {success: false, message: "Invalid form data"}, and nothing is sanitised,
\* no service is initialised and nothing is appended for it.
C20_InvalidBodyAnswered400 ==
  (req.pc # "none" /\ req.method = "POST" /\ StructurallyInvalid(req.body)) =>
     /\ Responded
     /\ req.status = 400
     /\ req.response = InvalidResponse
     /\ req.sanitizedData = Undefined
     /\ app.pc = "idle" /\ sheet = <<>>
     /\ \A i \in 1..Len(log) : log[i].operation \notin ExternalOperations


\* log entries left by body validation, sanitising and what follows them
BodyOperations == {"validation", "form_processing", "api_handler", "api_response"}

\* positions of the entries logged since the current request was received: those
\* that follow every entry of an earlier request or of an earlier append call
SinceReceived ==
  { i \in 1..Len(log) :
      \A j \in 1..Len(log) :
         log[j].submissionId \in 1..(req.submissionId - 1) => j < i }

\* C21: in the service-based handler a request whose method is not POST is
\* answered 405 {success: false, message: "Method not allowed"}; its body is not
\* validated or sanitised, no service is initialised and no append call is made
\* for it (the last append call, if any, belongs to an earlier request).
C21_NonPostAnswered405 ==
  (req.pc # "none" /\ req.method # "POST") =>
     /\ Responded
     /\ req.status = 405
     /\ req.response = [success |-> FALSE, message |-> "Method not allowed"]
     /\ req.sanitizedData = Undefined
     /\ app.pc \in {"idle", "returned", "thrown"}
     /\ app.submissionId < req.submissionId
     /\ \A i \in SinceReceived :
           log[i].operation \notin ExternalOperations \cup BodyOperations

\* a PUT carrying a valid body, answered
C21_Witness ==
  /\ Responded /\ req.method = "PUT" /\ req.body = ValidBody
  /\ req.status = 405
  /\ Len(log) > 0 /\ log[Len(log)].message = "Invalid request method"


-----------------------------------------------------------------------------
(* Properties of the data formatter *)

Formatted == call.fn = "formatFormDataForSubmission"

IsISOTimestamp(x) == IsString(x) /\ ToLocaleString(x.v) # InvalidDate

\* what a SubmissionPayload must satisfy, the caps on name and handle left aside
PayloadShape(p) ==
  /\ IsISOTimestamp(p.timestamp)
  /\ NonBlankString(p.name) /\ Trimmed(p.name)
  /\ NonBlankString(p.socialMediaHandle) /\ Trimmed(p.socialMediaHandle)
  /\ NonEmptyArray(p.contactMethods)
  /\ NonEmptyArray(p.socialPlatforms)
  /\ HasTag(p.contactMethods, EmailTag) => IsString(p.email) /\ isValidEmail(p.email.v)
  /\ HasTag(p.contactMethods, PhoneTag) => IsString(p.phone) /\ isValidPhone(p.phone.v)

\* C22 as stated: for answers with validate(answers) = true, format(answers) has an
\* ISO timestamp, a non-empty trimmed length-capped name and handle, non-empty
\* contactMethods and socialPlatforms, and a well-formed email (phone) for the tag
\* "email" ("phone").  The formatter trims and does not cap.
C22_FormattedPayloadWithinCaps ==
  (Formatted /\ validateFormDataForSubmission(call.answers)) =>
     /\ PayloadShape(call.result)
     /\ Len(call.result.name.v) <= nameCap
     /\ Len(call.result.socialMediaHandle.v) <= handleCap

\* C22, amended: the same without the caps, which only the server's sanitising
\* applies.
C22_FormattedPayloadWellFormed ==
  (Formatted /\ validateFormDataForSubmission(call.answers)) => PayloadShape(call.result)

\* valid answers with padded strings and both methods, formatted
C22_Witness ==
  /\ Formatted /\ validateFormDataForSubmission(call.answers)
  /\ call.answers.name = Str(<<" ">> \o NameSample \o <<" ">>)
  /\ call.answers.contact_info.email = Str(<<" ">> \o EmailSample \o <<" ">>)
  /\ HasTag(call.result.contactMethods, EmailTag)
  /\ HasTag(call.result.contactMethods, PhoneTag)
  /\ call.result.name = Str(NameSample)


Validated == call.fn = "validateFormDataForSubmission"

\* a value that is missing, empty or made of whitespace only
Absent(x) == x.t \in {"undefined", "null"} \/ (IsString(x) /\ Len(Trim(x.v)) = 0)

\* the tag is among the selected methods and its value is absent
SelectedWithoutValue(answers, tag, f) ==
  /\ IsObject(answers.contact_info)
  /\ IsArray(Prop(answers.contact_info, "methods"))
  /\ HasTag(answers.contact_info.methods, tag)
  /\ Absent(Prop(answers.contact_info, f))

\* C23: when a contact method is selected and its value is missing, empty or
\* whitespace only, validate(answers) is false.
C23_SelectedMethodNeedsItsValue ==
  (Validated /\ (\/ SelectedWithoutValue(call.answers, EmailTag, "email")
                 \/ SelectedWithoutValue(call.answers, PhoneTag, "phone"))) =>
     call.result = FALSE

\* answers complete but for a phone of blanks, with "phone" ticked
C23_Witness ==
  /\ Validated
  /\ call.answers.name = Str(NameSample)
  /\ call.answers.platform = Arr(<<Str(InstagramTag), Str(TiktokTag)>>)
  /\ call.answers.social_media_id = Str(<<" ">> \o HandleSample)
  /\ call.answers.contact_info =
        [methods |-> Arr(<<Str(EmailTag), Str(PhoneTag)>>),
         email |-> Str(EmailSample), phone |-> Str(<<" ", " ">>)]
  /\ call.result = FALSE


\* the payload carries field f only if its tag is among the payload's methods
CarriedOnlyIfSelected(p, tag, f) ==
  p[f] # Undefined => HasTag(p.contactMethods, tag)

\* C24 as stated: format(answers) drops the value of every contact method that is
\* not selected.  The formatter never looks at the methods when it copies a value.
C24_FormatDropsUnselectedValues ==
  Formatted =>
     /\ CarriedOnlyIfSelected(call.result, EmailTag, "email")
     /\ CarriedOnlyIfSelected(call.result, PhoneTag, "phone")

\* C24, amended: format carries an email (phone) exactly when the contact answer
\* holds one that is not blank; for a contact answer handed on by the contact
\* question, which blanks what is not ticked, that is only when its tag is selected.
C24_FormatCarriesEveryNonBlankValue ==
  Formatted =>
     /\ call.result.email # Undefined
           <=> ~Absent(ContactProp(call.answers.contact_info, "email"))
     /\ call.result.phone # Undefined
           <=> ~Absent(ContactProp(call.answers.contact_info, "phone"))
     /\ call.answers.contact_info \in ContactQuestionSamples =>
           /\ CarriedOnlyIfSelected(call.result, EmailTag, "email")
           /\ CarriedOnlyIfSelected(call.result, PhoneTag, "phone")

\* an email typed, then "email" unticked: the question blanked it, format drops it
C24_Witness ==
  /\ Formatted
  /\ call.answers.contact_info =
        ContactQuestionValue(<<Str(PhoneTag)>>, EmailSample, PhoneSample)
  /\ call.result.email = Undefined
  /\ call.result.phone = Str(PhoneSample)


-----------------------------------------------------------------------------
(* Properties of the client's submission *)

\* submitForm n has issued its POST and has not reached its finally block
Pending(n) == n \in sub.inFlight \cup sub.reading

\* C25: the client's wait is bounded by the 10 s abort: every submitForm that
\* issued its POST finishes, and isSubmitting never stays true for ever.  The
\* timer is cleared when the answer's head arrives, before the body is read.
C25_SubmitFormAlwaysFinishes ==
  /\ \A n \in 1..MaxSubmissions : Pending(n) ~> ~Pending(n)
  /\ state.isSubmitting ~> ~state.isSubmitting


\* C30: for one filled-in form the client issues at most one POST: while a
\* submission is in flight, or after it has ended, a further click on Submit, Enter
\* key or auto-advance starts no second one.  Nothing in handleNext, handleSubmit or
\* submitForm looks at isSubmitting.
C30_AtMostOnePost == Len(sub.posts) <= 1


-----------------------------------------------------------------------------
(* Properties of the spreadsheet *)

\* rows of the sheet that were written for the payload of the current append call
RowsOfSubmission ==
  { i \in 1..Len(sheet) : sheet[i] = convertToSpreadsheetRow(app.data) }

\* C26: a submission adds at most one row to the spreadsheet, and exactly one when
\* its append succeeds, also when earlier attempts for it failed or timed out
\* before a later attempt succeeded.  An attempt whose answer is lost is repeated
\* although the remote service has written its row.
C26_OneRowPerSubmission ==
  app.pc # "idle" =>
     /\ Len(sheet) <= 1
     /\ app.pc = "returned" => Cardinality(RowsOfSubmission) = 1


-----------------------------------------------------------------------------
(* Properties of the error classifier *)

Classified == call.fn = "classifyError"

Categories ==
  {"authentication", "network", "rate_limit", "validation", "permission", "quota",
   "server", "unknown"}

\* the error matches no keyword of a category other than server
NoOtherKeyword(error) ==
  /\ ~IncludesAny(ToLowerCase(error.message),
                  UNION { AuthenticationKeywords, NetworkKeywords, RateLimitKeywords,
                          ValidationKeywords, PermissionKeywords, QuotaKeywords })
  /\ ~Includes(ToLowerCase(error.name), <<"a","u","t","h">>)
  /\ ~Includes(ToLowerCase(error.name), <<"n","e","t","w","o","r","k">>)

Quotes(error, codes) == IncludesAny(ToLowerCase(error.message), codes)

ServerPhrases == { <<"i","n","t","e","r","n","a","l"," ","s","e","r","v","e","r"," ","e","r","r","o","r">>, <<"s","e","r","v","i","c","e"," ","u","n","a","v","a","i","l","a","b","l","e">> }

\* C27 as stated: classify maps every error to one of the eight categories; a
\* message that quotes a status code from 500 through 504, and no keyword of another
\* category, is classified server, and a message that matches no keyword is
\* classified unknown.  The keyword table has no entry for 501.
C27_ServerFor500Through504 ==
  Classified =>
     /\ call.result \in Categories
     /\ (Quotes(call.arg, { <<"5","0","0">>, <<"5","0","1">>, <<"5","0","2">>, <<"5","0","3">>, <<"5","0","4">> }) /\ NoOtherKeyword(call.arg)) =>
           call.result = "server"
     /\ (~Quotes(call.arg, ServerPhrases \cup { <<"5","0","0">>, <<"5","0","1">>, <<"5","0","2">>, <<"5","0","3">>, <<"5","0","4">> })
           /\ NoOtherKeyword(call.arg)) => call.result = "unknown"

\* C27, amended: the same with the codes the table holds, 500, 502, 503 and 504; a
\* message that quotes 501 and nothing else is classified unknown.  The answer
\* does not depend on the case of the message or of the name.
C27_ServerFor500And502To504 ==
  Classified =>
     /\ call.result \in Categories
     /\ (Quotes(call.arg, { <<"5","0","0">>, <<"5","0","2">>, <<"5","0","3">>, <<"5","0","4">> }) /\ NoOtherKeyword(call.arg)) =>
           call.result = "server"
     /\ (~Quotes(call.arg, ServerPhrases \cup { <<"5","0","0">>, <<"5","0","2">>, <<"5","0","3">>, <<"5","0","4">> })
           /\ NoOtherKeyword(call.arg)) => call.result = "unknown"
     /\ call.result = classifyError([name |-> ToLowerCase(call.arg.name),
                                     message |-> ToLowerCase(call.arg.message)])

\* "HTTP 501 error" classified unknown
C27_Witness ==
  /\ Classified
  /\ call.arg.message = <<"H","T","T","P"," ">> \o <<"5","0","1">> \o <<" ","e","r","r","o","r">>
  /\ call.result = "unknown"


-----------------------------------------------------------------------------
(* Properties of the row *)

Converted == call.fn = "convertToSpreadsheetRow"

\* C28 as stated: for valid answers no cell of toRow(format(answers)) is the text
\* "undefined" or "null", and each optional field that the payload lacks is exactly
\* the empty string.  A cell holds whatever the user typed, that text included.
C28_NoCellReadsUndefinedOrNull ==
  (Converted /\ validateFormDataForSubmission(call.answers)) =>
     /\ \A f \in PayloadFields : call.result[f] \notin { <<"u","n","d","e","f","i","n","e","d">>, <<"n","u","l","l">> }
     /\ \A f \in {"email", "phone", "address"} :
           call.arg[f] = Undefined => call.result[f] = <<>>

\* C28, amended: for valid answers every cell of toRow(format(answers)) is text:
\* the timestamp is a date, name and handle are what the user typed, trimmed, the
\* two lists are joined, and an optional field is what was typed or, when the
\* payload lacks it, exactly the empty string; no absent value is rendered as
\* "undefined" or "null".
C28_AbsentValuesRenderEmpty ==
  (Converted /\ validateFormDataForSubmission(call.answers)) =>
     /\ call.result.timestamp # InvalidDate
     /\ \A f \in {"email", "phone", "address"} :
           IF call.arg[f] = Undefined THEN call.result[f] = <<>>
           ELSE call.result[f] = call.arg[f].v /\ call.result[f] # <<>>
     /\ call.result.name = Trim(call.answers.name.v) /\ call.result.name # <<>>
     /\ call.result.socialMediaHandle = Trim(call.answers.social_media_id.v)
     /\ call.result.socialMediaHandle # <<>>
     /\ call.result.contactMethods # <<>> /\ call.result.socialPlatforms # <<>>
     /\ \A f \in PayloadFields :
           call.result[f] \in { <<"u","n","d","e","f","i","n","e","d">>, <<"n","u","l","l">> } => f = "socialMediaHandle"

\* the row of valid answers with the email method only and no address
C28_Witness ==
  /\ Converted /\ validateFormDataForSubmission(call.answers)
  /\ call.arg.phone = Undefined /\ call.arg.address = Undefined
  /\ call.result.contactMethods = EmailTag
  /\ call.result.email = EmailSample
  /\ call.result.phone = <<>> /\ call.result.address = <<>>

-----------------------------------------------------------------------------
(* Properties of appendFormData when every remote call is rejected *)

\* every remote call of the current append was rejected (with an Error, with a value
\* that is no Error, or because its answer was lost)
EveryCallRejected ==
  /\ app.calls > 0 /\ Len(app.answers) = app.calls
  /\ \A i \in 1..Len(app.answers) : app.answers[i].kind # "resolved"

RejectionCategory(i) == classifyError(CaughtError(app.answers[i]))

PersistentError ==
  [name |-> <<"E","r","r","o","r">>,
   message |-> <<"P","e","r","s","i","s","t","e","n","t"," ","e","r","r","o","r">>]

\* the text of the error the claim expects for a last rejection with this message
AfterThreeAttempts(message) ==
  <<"F","a","i","l","e","d"," ","t","o"," ","a","p","p","e","n","d"," ","d","a","t","a",
    " ","t","o"," ","G","o","o","g","l","e"," ","S","h","e","e","t","s"," ","a","f","t",
    "e","r"," ","3"," ","a","t","t","e","m","p","t","s","."," ","L","a","s","t"," ","e",
    "r","r","o","r",":"," ">> \o message

-----------------------------------------------------------------------------
(* Properties of the manual-recovery entries of one request *)

\* positions of the manual-recovery entries logged since the current request was
\* received, by the handler and by the append call it makes
RecoveryEntriesOfRequest ==
  { i \in SinceReceived : log[i].message = "Manual data recovery required" }

\* C31: for one request handled by the service-based handler at most one
\* manual-recovery entry is logged in total, the append client and the handler
\* counted together.
C31_AtMostOneRecoveryEntryPerRequest ==
  Cardinality(RecoveryEntriesOfRequest) <= 1

\* the append call of the current request has returned: its row was appended
AppendOfRequestSucceeded ==
  /\ req.pc \in {"appending", "responded"}
  /\ app.pc = "returned" /\ app.submissionId > req.submissionId

\* C32: a request whose append succeeded leaves no 'Manual data recovery required'
\* entry in the log.
C32_NoRecoveryEntryAfterSuccessfulAppend ==
  AppendOfRequestSucceeded => RecoveryEntriesOfRequest = {}

-----------------------------------------------------------------------------
(* Properties of the correlation id *)

\* C38: the log entries produced for one submission that carry a correlation id,
\* those of the handler and those of the append call it makes, carry the same one.
C38_OneCorrelationIdPerSubmission ==
  \A i, j \in SinceReceived :
     (log[i].submissionId # NoId /\ log[j].submissionId # NoId) =>
        log[i].submissionId = log[j].submissionId

-----------------------------------------------------------------------------
(* Properties of the backoff waits *)

\* C36: appendFormData sleeps only between two attempts: once it has returned or
\* thrown, the backoff waits number one less than the remote append calls; while
\* it runs every wait begun is followed by a further call, a wait is begun only
\* after a retryable failure of an attempt that is not the last, and none after
\* the last failed attempt or a non-retryable failure.
C36_WaitsOnlyBetweenAttempts ==
  /\ app.pc \in {"returned", "thrown"} => Len(app.waits) = app.calls - 1
  /\ app.pc = "attempt" => Len(app.waits) = app.calls
  /\ app.pc = "waiting" =>
        /\ Len(app.waits) = app.calls
        /\ app.calls < maxRetries
        /\ classifyError(app.lastError) \in RetryableCategories

\* a retryable failure, one wait, then a non-retryable failure and the throw
C36_Witness ==
  /\ app.pc = "thrown" /\ app.calls = 2 /\ Len(app.waits) = 1
  /\ classifyError(CaughtError(app.answers[1])) \in RetryableCategories
  /\ classifyError(app.lastError) \notin RetryableCategories

-----------------------------------------------------------------------------
(* Properties of the classifier's order *)

CategoryOrder ==
  << "authentication", "network", "rate_limit", "validation", "permission", "quota",
     "server" >>

KeywordsOf(category) ==
  CASE category = "authentication" -> AuthenticationKeywords
    [] category = "network" -> NetworkKeywords
    [] category = "rate_limit" -> RateLimitKeywords
    [] category = "validation" -> ValidationKeywords
    [] category = "permission" -> PermissionKeywords
    [] category = "quota" -> QuotaKeywords
    [] category = "server" -> ServerKeywords

\* places in the order of the categories of which the message holds a keyword
MatchedPlaces(error) ==
  { p \in 1..Len(CategoryOrder) :
      IncludesAny(ToLowerCase(error.message), KeywordsOf(CategoryOrder[p])) }

NameDecides(error) ==
  \/ Includes(ToLowerCase(error.name), <<"a","u","t","h">>)
  \/ Includes(ToLowerCase(error.name), <<"n","e","t","w","o","r","k">>)

\* C37: for an error whose name decides nothing, classify returns the category that
\* comes first in the order authentication, network, rate_limit, validation,
\* permission, quota, server among those of which the message holds a keyword; so
\* 'Quota exceeded' is rate_limit, not quota, and 'Usage limit exceeded' is quota,
\* which is retried.
C37_FirstMatchInFixedOrder ==
  (Classified /\ ~NameDecides(call.arg)) =>
     /\ MatchedPlaces(call.arg) # {} =>
           \E p \in MatchedPlaces(call.arg) :
              /\ \A q \in MatchedPlaces(call.arg) : p <= q
              /\ call.result = CategoryOrder[p]
     /\ MatchedPlaces(call.arg) = {} => call.result = "unknown"
     /\ call.arg.message = <<"Q","u","o","t","a"," ","e","x","c","e","e","d","e","d">>
           => call.result = "rate_limit"
     /\ call.arg.message
           = <<"U","s","a","g","e"," ","l","i","m","i","t"," ","e","x","c","e","e","d","e","d">>
           => call.result = "quota" /\ isRetryable(call.result)

\* 'Quota exceeded', which holds a rate-limit keyword and a quota keyword
C37_Witness ==
  /\ Classified /\ ~NameDecides(call.arg)
  /\ call.arg.message = <<"Q","u","o","t","a"," ","e","x","c","e","e","d","e","d">>
  /\ MatchedPlaces(call.arg) = {3, 6}
  /\ call.result = "rate_limit"

-----------------------------------------------------------------------------
(* Properties of the order of the rate-limited handler's checks *)

ReachedSpreadsheet(k) ==
  \E i \in 1..Len(rlReq[k].trail) : rlReq[k].trail[i] = "append"

\* C34: in the rate-limited handler the spreadsheet call is made only for a request
\* that was admitted by the limiter, then passed structural validation, then
\* passed the Turnstile verification, in this order; a request that fails one of
\* the three is answered at that check, and the later checks and the spreadsheet
\* call are not made for it.  Every row of the sheet is the row of a request that
\* passed all three.
C34_AppendOnlyAfterTheThreeChecks ==
  /\ \A k \in 1..MaxRLRequests :
        LET r == rlReq[k]
        IN  /\ (r.pc = "appending" => ReachedSpreadsheet(k))
            /\ ReachedSpreadsheet(k) =>
                  /\ r.trail = <<"admitted", "valid", "verified", "append">>
                  /\ r.method = "POST" /\ StructurallyValidRL(r.body)
                  /\ env.turnstileSecret /\ env.sheetsConfigured
                  /\ r.ip \in DOMAIN decisions
                  /\ \E j \in 1..Len(decisions[r.ip]) : decisions[r.ip][j].admitted
            /\ (r.trail # <<>> /\ r.trail[1] = "refused") =>
                  r.trail = <<"refused">> /\ r.status = 429
            /\ (r.pc # "none" /\ r.method = "POST" /\ r.trail # <<"refused">>
                   /\ ~StructurallyValidRL(r.body)) =>
                  r.trail = <<"admitted", "invalid">> /\ r.status = 400
            /\ (\E i \in 1..Len(r.trail) : r.trail[i] = "failed") =>
                  /\ r.trail = <<"admitted", "valid", "failed">>
                  /\ r.response = VerificationFailedResponse
  /\ \A i \in 1..Len(sheet) :
        \E k \in 1..MaxRLRequests :
           /\ ReachedSpreadsheet(k)
           /\ sheet[i] = appendToGoogleSheetsRow(rlReq[k].sanitizedData)

\* a row in the sheet beside a request that failed the verification and one whose
\* body was invalid
C34_Witness ==
  /\ Len(sheet) = 1
  /\ \E k \in 1..MaxRLRequests :
        rlReq[k].pc = "responded" /\ ReachedSpreadsheet(k)
  /\ \E k \in 1..MaxRLRequests : rlReq[k].trail = <<"admitted", "valid", "failed">>
  /\ \E k \in 1..MaxRLRequests : rlReq[k].trail = <<"admitted", "invalid">>

-----------------------------------------------------------------------------
(* Properties of the limiter's entries *)

\* positions of the admitted requests of address ip before its j-th request
AdmittedEarlier(ip, j) == { i \in 1..(j - 1) : decisions[ip][i].admitted }

LastOf(S) == CHOOSE i \in S : \A h \in S : h <= i

\* the j-th request of ip came more than 60 s after the last admitted one before it
WindowPassed(ip, j) ==
  /\ AdmittedEarlier(ip, j) # {}
  /\ decisions[ip][j].at - decisions[ip][LastOf(AdmittedEarlier(ip, j))].at > 60000

\* the entry of each address is what its last admitted request left, and a request
\* that comes after the window has passed is admitted
EntriesFollowAdmissions ==
  \A ip \in DOMAIN decisions :
     /\ \A j \in 1..Len(decisions[ip]) :
           WindowPassed(ip, j) =>
              decisions[ip][j].admitted /\ decisions[ip][j].count = 1
     /\ LET admitted == AdmittedEarlier(ip, Len(decisions[ip]) + 1)
        IN  admitted # {} =>
              /\ ip \in DOMAIN submissionTracker
              /\ submissionTracker[ip]
                   = [count |-> decisions[ip][LastOf(admitted)].count,
                      lastSubmission |-> decisions[ip][LastOf(admitted)].at]

\* what one step may do to the limiter's map: only the step that receives a POST
\* changes it, only the entry of that request's address, and not at all when the
\* request is refused
LimiterFrame ==
  \A k \in 1..MaxRLRequests :
     (rlReq[k].pc = "none" /\ rlReq'[k].pc # "none") =>
        /\ \A ip \in DOMAIN submissionTracker :
              ip # rlReq'[k].ip =>
                 /\ ip \in DOMAIN submissionTracker'
                 /\ submissionTracker'[ip] = submissionTracker[ip]
        /\ DOMAIN submissionTracker' \subseteq DOMAIN submissionTracker \cup {rlReq'[k].ip}
        /\ rlReq'[k].status = 429 => submissionTracker' = submissionTracker
        /\ rlReq'[k].method # "POST" => submissionTracker' = submissionTracker

\* C35: a request refused by the limiter leaves the entry of its address unchanged,
\* count and time, and no request changes the entry of another address; so a
\* request that comes more than 60 s after the last admitted request of its
\* address is admitted, however many refused requests came in between.
C35_RefusalLeavesLimiterUnchanged ==
  /\ []EntriesFollowAdmissions
  /\ [][LimiterFrame
          /\ ((\A k \in 1..MaxRLRequests : rlReq[k].pc = "none" <=> rlReq'[k].pc = "none")
                => submissionTracker' = submissionTracker)]_vars

\* an address refused, and admitted again once the window has passed since its
\* last admitted request
C35_Witness ==
  \E ip \in DOMAIN decisions :
     \E j \in 1..Len(decisions[ip]) :
        /\ WindowPassed(ip, j) /\ decisions[ip][j].admitted
        /\ \E i \in 1..(j - 1) :
              /\ ~decisions[ip][i].admitted
              /\ \A h \in AdmittedEarlier(ip, j) : h < i

-----------------------------------------------------------------------------
(* Properties of the client's and the handlers' validation together *)

\* the body a handler parses from JSON.stringify(payload): fields whose value is
\* undefined are left out
JSONBody(payload) ==
  [f \in { g \in DOMAIN payload : payload[g] # Undefined } |-> payload[f]]

\* C33: whenever validate(answers) is true, the payload format(answers), posted as
\* JSON, passes the structural validation of the handler, the service-based one and
\* the rate-limited one, so that it is not answered 400 'Invalid form data'.
C33_ClientValidPassesServerValidation ==
  (Formatted /\ validateFormDataForSubmission(call.answers)) =>
     /\ validateFormData(JSONBody(call.result))
     /\ validateFormDataRL(JSONBody(call.result))

-----------------------------------------------------------------------------
(* Properties of the hook's index *)

\* C39: after every sequence of setAnswer, nextQuestion, prevQuestion, goToQuestion
\* and visibility updates, currentQuestionIndex is never negative, and while the
\* form is not completed and a question is visible it is at most
\* visibleQuestions.length - 1.
C39_IndexDesignatesAVisibleQuestion ==
  /\ state.currentQuestionIndex >= 0
  /\ (~state.isCompleted /\ Len(state.visibleQuestions) > 0) =>
        state.currentQuestionIndex <= Len(state.visibleQuestions) - 1

====
